---- MODULE Spec2Model ----
(***************************************************************************)
(* The batching engine of batchkit: packages/core/src/batch.ts.            *)
(*                                                                         *)
(* One batcher instance.  JavaScript is single-threaded, so every action   *)
(* is one synchronous section of the code, from its entry up to the next   *)
(* suspension point (an await, a timer, or the return to the caller).      *)
(* Requests are numbered in creation order; resolver calls (one per chunk  *)
(* that reaches the resolver) and dispatch cycles are numbered in the      *)
(* order in which they start and are kept after they end, as the record    *)
(* of what the resolver was asked.                                         *)
(***************************************************************************)
EXTENDS Integers, Sequences, FiniteSets, TLC

\* ------------------------------------------------------------- bounds
\* number of get() calls explored
MaxReq == 3
\* the `max` option explored besides "no max"
MaxBatch == 2

\* caller keys; key 3 normalizes to key 1 under the custom key function
Keys == {1, 2, 3}

\* options.key: the key normalizer used for deduplication.  The default is
\* the identity; the one explored identifies key 3 with key 1 and is the
\* identity elsewhere, so both the default and a merging normalizer occur.
KeyFn(k) == IF k = 3 THEN 1 ELSE k

VARIABLES
    max,             \* options.max (0: not set)
    reqs,            \* every PendingRequest created, with its promise
    queue,           \* queue: sequence of request ids
    pendingKeys,     \* pendingKeys: set of normalized keys
    activeRequests,  \* activeRequests: set of request ids
    isScheduled,     \* isScheduled
    cleanup,         \* cleanup # null
    callbacks,       \* the callbacks the scheduler holds and will still
                     \* invoke, each named by the request whose get() made
                     \* the scheduler call
    cycles,          \* dispatch() invocations that took a snapshot
    calls,           \* processChunk() invocations that reached the resolver
    tracer           \* tracer: options.trace, batchCounter, and the events
                     \* the handler has been given

vars == <<max, reqs, queue, pendingKeys, activeRequests, isScheduled,
          cleanup, callbacks, cycles, calls, tracer>>

\* the scheduler holds a callback it will still invoke
timer == callbacks # {}

\* cleanup(): the cancel function returned by the latest scheduler call
\* removes the callback of that call from the scheduler
CallCleanup(cb) ==
    IF cleanup /\ cb # {}
    THEN cb \ {CHOOSE x \in cb : \A y \in cb : y <= x}
    ELSE cb

\* ------------------------------------------------------------- tracer
\* the types of the events batch.ts emits
EventTypes == {"get", "dedup", "schedule", "dispatch", "resolve", "error", "abort"}
TerminalEventTypes == {"resolve", "error", "abort"}

\* createTracer(name, handler): the tracer of a batcher built without
\* options.trace ("none"), with a handler that throws ("throws"), or with
\* a handler that records the events it is given whose type is in `types`
\* and ignores the others ("records")
CreateTracer(handler, types) ==
    [handler |-> handler, types |-> types, batchCounter |-> 0, events |-> <<>>]

\* an event as the handler sees it; batchId is the counter of the id
\* (0: the event has none), data the key, the keys or the size
Event(type, batchId, data) == [type |-> type, batchId |-> batchId, data |-> data]

\* tracer.emit(event)
Emit(t, event) ==
    IF t.handler = "records" /\ event.type \in t.types
    THEN [t EXCEPT !.events = Append(@, event)]
    ELSE t

RECURSIVE EmitAll(_, _)
EmitAll(t, events) ==
    IF Len(events) = 0 THEN t
    ELSE EmitAll(Emit(t, Head(events)), Tail(events))

\* tracer.nextBatchId(): the id made is the counter after the increment.
\* The ids are read by the trace handler only (the batchId kept in an
\* InFlightChunk is never read), so for a batcher whose handler does not
\* record them the counter is not kept and every id is 0.
NextBatchId(t) ==
    IF t.handler = "records" THEN [t EXCEPT !.batchCounter = @ + 1] ELSE t

\* ------------------------------------------------------------- helpers
Ids == 1..Len(reqs)

SeqToSet(s) == {s[i] : i \in 1..Len(s)}

\* The request object and closure state built by getSingle.  Every request
\* carries a signal with onAbort registered: a get() without a signal runs
\* the same code but for the listener, and so behaves as a get() whose
\* signal never fires.  `group` is the first request of the get(keys)
\* call that made the request (0: made by get(key)); `batchId` is the id
\* the scheduler callback made by this request's get() closes over (0: its
\* get() made no scheduler call).
NewRequest(k) ==
    [key |-> k, fired |-> FALSE,
     listening |-> TRUE, aborted |-> FALSE, settled |-> FALSE,
     kind |-> "pending", value |-> 0, error |-> "none", settles |-> 0,
     chunkOf |-> 0, group |-> 0, batchId |-> 0]

\* the engine state a settlement touches
St(rq, act) == [reqs |-> rq, activeRequests |-> act]

\* the guard `if (settled) return` of resolve and reject
NeverSettledYet(req) == FALSE
AlreadySettled(req) == req.settled

\* what the promise does with a call of resolvePromise / rejectPromise:
\* the first call decides, later calls are counted but change nothing
PromiseSettle(req, knd, v, e) ==
    IF req.kind = "pending"
    THEN [req EXCEPT !.kind = knd, !.value = v, !.error = e,
                     !.settles = @ + 1]
    ELSE [req EXCEPT !.settles = @ + 1]

\* the closure body shared by resolve and reject
SettleKeepListening(st, r, knd, v, e) ==
    IF AlreadySettled(st.reqs[r]) THEN st
    ELSE [reqs |-> [st.reqs EXCEPT ![r] =
                      PromiseSettle([@ EXCEPT !.settled = TRUE,
                                              !.chunkOf = 0], knd, v, e)],
          activeRequests |-> st.activeRequests \ {r}]
\* the closure body without activeRequests.delete(request)
SettleKeepActive(st, r, knd, v, e) ==
    IF AlreadySettled(st.reqs[r]) THEN st
    ELSE [reqs |-> [st.reqs EXCEPT ![r] =
                      PromiseSettle([@ EXCEPT !.settled = TRUE,
                                              !.listening = FALSE,
                                              !.chunkOf = 0], knd, v, e)],
          activeRequests |-> st.activeRequests]
Settle(st, r, knd, v, e) ==
    IF AlreadySettled(st.reqs[r]) THEN st
    ELSE [reqs |-> [st.reqs EXCEPT ![r] =
                      PromiseSettle([@ EXCEPT !.settled = TRUE,
                                              !.listening = FALSE,
                                              !.chunkOf = 0], knd, v, e)],
          activeRequests |-> st.activeRequests \ {r}]

Resolve(st, r, v) == Settle(st, r, "resolved", v, "none")
Reject(st, r, e) == Settle(st, r, "rejected", 0, e)

MarkAbortedOnly(st, r) == [st EXCEPT !.reqs[r].aborted = TRUE]
RejectAsAborted(st, r) ==
    IF st.reqs[r].aborted THEN st
    ELSE Reject([st EXCEPT !.reqs[r].aborted = TRUE], r, "AbortError")

\* ------------------------------------------------------------- chunks
\* the slices of dispatch: batch.slice(i, i + max) for i = 0, max, 2 max, ...
RECURSIVE Slices(_, _)
Slices(batch, m) ==
    IF Len(batch) = 0 THEN <<>>
    ELSE IF Len(batch) <= m THEN <<batch>>
    ELSE <<SubSeq(batch, 1, m)>> \o Slices(SubSeq(batch, m + 1, Len(batch)), m)

SlicesOneLonger(batch, m) ==
    IF m > 0 THEN Slices(batch, m + 1) ELSE <<batch>>
FirstSliceOnly(batch, m) ==
    IF m > 0 /\ Len(batch) > m THEN <<SubSeq(batch, 1, m)>> ELSE <<batch>>
MakeChunks(batch, m) == IF m > 0 THEN Slices(batch, m) ELSE <<batch>>

\* the first loop of processChunk: uniqueKeys and keyToRequests, built from
\* the requests of the chunk that are not aborted, by normalized key
RECURSIVE GroupFrom(_, _, _, _)
GroupFrom(chunk, rq, i, acc) ==
    IF i > Len(chunk) THEN acc
    ELSE LET r == chunk[i]
             cacheKey == KeyFn(rq[r].key)
         IN  IF rq[r].aborted THEN GroupFrom(chunk, rq, i + 1, acc)
             ELSE IF cacheKey \in DOMAIN acc.keyToRequests
             THEN GroupFrom(chunk, rq, i + 1,
                      [acc EXCEPT !.keyToRequests[cacheKey] = Append(@, r)])
             ELSE GroupFrom(chunk, rq, i + 1,
                      [uniqueKeys |-> Append(acc.uniqueKeys, rq[r].key),
                       keyToRequests |->
                           acc.keyToRequests @@ (cacheKey :> <<r>>)])

NoGroups == [uniqueKeys |-> <<>>, keyToRequests |-> [x \in {} |-> <<>>]]

\* uniqueKeys.push(request.key) for every live request, new key or not
GroupAllKeys(chunk, rq) ==
    LET live == SelectSeq(chunk, LAMBDA r : ~rq[r].aborted)
    IN  [GroupFrom(chunk, rq, 1, NoGroups) EXCEPT
            !.uniqueKeys = [i \in 1..Len(live) |-> rq[live[i]].key]]
\* the same loop without `if (request.aborted) continue`
GroupIncludingAborted(chunk, rq) ==
    GroupFrom(chunk, [r \in DOMAIN rq |-> [rq[r] EXCEPT !.aborted = FALSE]],
              1, NoGroups)
Group(chunk, rq) == GroupFrom(chunk, rq, 1, NoGroups)

\* processChunk(chunk, batchId) up to `await fn(uniqueKeys, signal)`, for
\* chunk number n of cycle c: the engine state after it, as [reqs, calls]
ProcessChunkStartSharedController(rq, cl, c, n, chunk, batchId) ==
    LET g == Group(chunk, rq)
        id == Len(cl) + 1
    IN  IF Len(g.uniqueKeys) = 0 THEN [reqs |-> rq, calls |-> cl]
        ELSE [reqs |-> [r \in DOMAIN rq |->
                          IF r \in SeqToSet(chunk)
                          THEN [rq[r] EXCEPT !.chunkOf = id] ELSE rq[r]],
              calls |-> Append(cl,
                          [cycle |-> c, chunk |-> n, requests |-> chunk,
                           batchId |-> batchId,
                           uniqueKeys |-> g.uniqueKeys,
                           keyToRequests |-> g.keyToRequests,
                           signalAborted |->
                               \E i \in 1..Len(cl) :
                                   cl[i].signalAborted /\ ~cl[i].done,
                           done |-> FALSE])]
ProcessChunkStart(rq, cl, c, n, chunk, batchId) ==
    LET g == Group(chunk, rq)
        id == Len(cl) + 1
    IN  IF Len(g.uniqueKeys) = 0 THEN [reqs |-> rq, calls |-> cl]
        ELSE [reqs |-> [r \in DOMAIN rq |->
                          IF r \in SeqToSet(chunk)
                          THEN [rq[r] EXCEPT !.chunkOf = id] ELSE rq[r]],
              calls |-> Append(cl,
                          [cycle |-> c, chunk |-> n, requests |-> chunk,
                           batchId |-> batchId,
                           uniqueKeys |-> g.uniqueKeys,
                           keyToRequests |-> g.keyToRequests,
                           signalAborted |-> FALSE, done |-> FALSE])]

\* a processChunk that emits no 'dispatch' event
NoDispatchTrace(t, cl, started) == t
\* the 'dispatch' event of processChunk, emitted when it made a call
DispatchTrace(t, cl, started) ==
    IF Len(started.calls) > Len(cl)
    THEN LET new == started.calls[Len(started.calls)]
         IN  Emit(t, Event("dispatch", new.batchId, new.uniqueKeys))
    ELSE t

\* inFlightChunks: the resolver calls that have not returned
InFlightChunks == {i \in 1..Len(calls) : ~calls[i].done}

\* ------------------------------------------------------------- Init
Init ==
    /\ max \in {0, MaxBatch}
    /\ reqs = <<>>
    /\ queue = <<>>
    /\ pendingKeys = {}
    /\ activeRequests = {}
    /\ isScheduled = FALSE
    /\ cleanup = FALSE
    /\ callbacks = {}
    /\ cycles = <<>>
    /\ calls = <<>>
    /\ tracer = CreateTracer("none", {})

\* the batcher built with a trace handler that throws on some events
InitThrows ==
    /\ max \in {0, MaxBatch}
    /\ reqs = <<>>
    /\ queue = <<>>
    /\ pendingKeys = {}
    /\ activeRequests = {}
    /\ isScheduled = FALSE
    /\ cleanup = FALSE
    /\ callbacks = {}
    /\ cycles = <<>>
    /\ calls = <<>>
    /\ tracer = CreateTracer("throws", {})

\* the batcher built with a trace handler that records the events of the
\* given types, and with a max option out of maxes
InitRecording(types, maxes) ==
    /\ max \in maxes
    /\ reqs = <<>>
    /\ queue = <<>>
    /\ pendingKeys = {}
    /\ activeRequests = {}
    /\ isScheduled = FALSE
    /\ cleanup = FALSE
    /\ callbacks = {}
    /\ cycles = <<>>
    /\ calls = <<>>
    /\ tracer = CreateTracer("records", types)

InitTraced == InitRecording(EventTypes, {MaxBatch})
InitChunkTraced == InitRecording({"dispatch"}, {1})
InitIntakeTraced == InitRecording({"get", "dedup"}, {MaxBatch})

\* scheduleDispatch, given the queue it finds
ScheduleAlways(q) ==
    IF Len(q) = 0
    THEN UNCHANGED <<isScheduled, cleanup, callbacks>>
    ELSE /\ isScheduled' = TRUE
         /\ cleanup' = TRUE
         /\ callbacks' = callbacks \cup {q[Len(q)]}
\* a scheduleDispatch that restarts the pending schedule for every request
ScheduleRestarting(q) ==
    IF Len(q) = 0
    THEN UNCHANGED <<isScheduled, cleanup, callbacks>>
    ELSE /\ isScheduled' = TRUE
         /\ cleanup' = TRUE
         /\ callbacks' = {q[Len(q)]}
ScheduleDispatch(q) ==
    IF isScheduled \/ Len(q) = 0
    THEN UNCHANGED <<isScheduled, cleanup, callbacks>>
    ELSE /\ isScheduled' = TRUE
         /\ cleanup' = TRUE
         /\ callbacks' = callbacks \cup {q[Len(q)]}

\* what scheduleDispatch does with the tracer: nextBatchId and 'schedule'
ScheduleTrace(q, t) ==
    IF isScheduled \/ Len(q) = 0 THEN t
    ELSE Emit(NextBatchId(t),
              Event("schedule", NextBatchId(t).batchCounter, Len(q)))

\* the batchId the callback given to the scheduler closes over (0: no
\* scheduler call is made)
ScheduledId(q, t) ==
    IF isScheduled \/ Len(q) = 0 THEN 0 ELSE NextBatchId(t).batchCounter

\* an intake that also counts the keys of the requests being dispatched
IntakeCountingActive(t, k, pk) ==
    IF KeyFn(k) \in pk \cup {KeyFn(reqs[r].key) : r \in activeRequests}
    THEN EmitAll(t, <<Event("get", 0, k), Event("dedup", 0, k)>>)
    ELSE Emit(t, Event("get", 0, k))

\* the events of getSingle before the request is made: 'get', and 'dedup'
\* when pendingKeys has the normalized key
Intake(t, k, pk) ==
    IF KeyFn(k) \in pk
    THEN EmitAll(t, <<Event("get", 0, k), Event("dedup", 0, k)>>)
    ELSE Emit(t, Event("get", 0, k))

\* get(key, {signal}) with a signal that has not fired
Get(k) ==
    /\ Len(reqs) < MaxReq
    /\ queue' = Append(queue, Len(reqs) + 1)
    /\ reqs' = Append(reqs, [NewRequest(k) EXCEPT
                                !.batchId = ScheduledId(queue', tracer)])
    /\ pendingKeys' = pendingKeys \cup {KeyFn(k)}
    /\ ScheduleDispatch(queue')
    /\ tracer' = ScheduleTrace(queue', Intake(tracer, k, pendingKeys))
    /\ UNCHANGED <<max, activeRequests, cycles, calls>>

\* one more get(key, {signal}) in the tick in which MaxReq requests were
\* queued with a batch limit: the queue then fills a second chunk
GetInBurst(k) ==
    /\ Len(reqs) = MaxReq
    /\ Len(queue) = MaxReq
    /\ max = MaxBatch
    /\ queue' = Append(queue, Len(reqs) + 1)
    /\ reqs' = Append(reqs, [NewRequest(k) EXCEPT
                                !.batchId = ScheduledId(queue', tracer)])
    /\ pendingKeys' = pendingKeys \cup {KeyFn(k)}
    /\ ScheduleDispatch(queue')
    /\ tracer' = ScheduleTrace(queue', Intake(tracer, k, pendingKeys))
    /\ UNCHANGED <<max, activeRequests, cycles, calls>>

\* the promise getSingle returns for a signal that is already aborted:
\* Promise.reject(new DOMException('Aborted', 'AbortError')).  No request
\* object and no closure exist for it.
AbortedGet(k) ==
    [NewRequest(k) EXCEPT !.fired = TRUE, !.listening = FALSE,
                          !.kind = "rejected", !.error = "AbortError",
                          !.settles = 1]

\* getSingle without its early return: the request is made and queued, the
\* check after addEventListener runs onAbort, then scheduleDispatch
GetAbortedAfterIntake(k) ==
    LET id == Len(reqs) + 1
        rq == Append(reqs, [AbortedGet(k) EXCEPT !.aborted = TRUE,
                                                 !.settled = TRUE])
        q == Append(queue, id)
    IN  /\ Len(reqs) < MaxReq
        /\ reqs' = rq
        /\ IF Len(q) > 0 /\ \A x \in SeqToSet(q) : rq[x].aborted
           THEN /\ queue' = <<>>
                /\ pendingKeys' = {}
                /\ cleanup' = FALSE /\ isScheduled' = FALSE
                /\ callbacks' = CallCleanup(callbacks)
                /\ tracer' = Intake(tracer, k, pendingKeys)
           ELSE /\ queue' = q
                /\ pendingKeys' = pendingKeys \cup {KeyFn(k)}
                /\ ScheduleDispatch(q)
                /\ tracer' = ScheduleTrace(q, Intake(tracer, k, pendingKeys))
        /\ UNCHANGED <<max, activeRequests, cycles, calls>>
\* get(key, {signal}) with a signal that is already aborted
GetAborted(k) ==
    /\ Len(reqs) < MaxReq
    /\ reqs' = Append(reqs, AbortedGet(k))
    /\ tracer' = Emit(tracer, Event("get", 0, k))
    /\ UNCHANGED <<max, queue, pendingKeys, activeRequests, isScheduled,
                   cleanup, callbacks, cycles, calls>>

\* the promise of get(keys) for keys = []: Promise.all of no promises, which
\* is fulfilled with the empty array.  It belongs to no key (key 0).
EmptyGet ==
    [NewRequest(0) EXCEPT !.listening = FALSE, !.kind = "resolved",
                          !.value = <<>>, !.settles = 1]

\* get without the Array.isArray branch: the array goes to getSingle as a key
GetEmptyAsKey ==
    /\ Len(reqs) < MaxReq
    /\ reqs' = Append(reqs, NewRequest(0))
    /\ queue' = Append(queue, Len(reqs) + 1)
    /\ pendingKeys' = pendingKeys \cup {KeyFn(0)}
    /\ ScheduleDispatch(queue')
    /\ tracer' = ScheduleTrace(queue', Intake(tracer, 0, pendingKeys))
    /\ UNCHANGED <<max, activeRequests, cycles, calls>>
\* get([]): keyOrKeys.map calls getSingle for no key
GetEmpty ==
    /\ Len(reqs) < MaxReq
    /\ reqs' = Append(reqs, EmptyGet)
    /\ UNCHANGED <<max, queue, pendingKeys, activeRequests, isScheduled,
                   cleanup, callbacks, cycles, calls, tracer>>

\* The trace events getSingle can emit, in the order of the code.
GetEvents == {"get", "dedup", "schedule"}

\* get(key) with a trace handler that throws when it is given an event of
\* type `event`.  tracer.emit calls the handler without a try block, so the
\* exception leaves emit at the statement that emitted:
\*  - 'get' and 'dedup' are emitted before anything is changed, and get()
\*    itself throws;
\*  - 'schedule' is emitted by scheduleDispatch inside the promise executor,
\*    after the request was queued and isScheduled was set and before the
\*    scheduler is called: the executor's exception rejects the promise.
GetTraceThrows(k, event) ==
    /\ tracer.handler = "throws"
    /\ Len(reqs) < MaxReq
    /\ event \in GetEvents
    /\ event = "dedup" => KeyFn(k) \in pendingKeys
    /\ event = "schedule" => ~isScheduled
    /\ IF event = "schedule"
       THEN /\ reqs' = Append(reqs, PromiseSettle(NewRequest(k), "rejected",
                                                  0, "SinkError"))
            /\ queue' = Append(queue, Len(reqs) + 1)
            /\ pendingKeys' = pendingKeys \cup {KeyFn(k)}
            /\ isScheduled' = TRUE
            /\ tracer' = NextBatchId(tracer)
            /\ UNCHANGED <<cleanup, callbacks>>
       ELSE /\ reqs' = Append(reqs, [NewRequest(k) EXCEPT
                                        !.listening = FALSE,
                                        !.kind = "threw",
                                        !.error = "SinkError"])
            /\ UNCHANGED <<queue, pendingKeys, isScheduled, cleanup, callbacks,
                           tracer>>
    /\ UNCHANGED <<max, activeRequests, cycles, calls>>

\* the key lists given to get(keys)
KeyLists == {<<1, 2>>, <<2, 1>>, <<3, 1>>}

\* get(keys) without a signal: keyOrKeys.map calls getSingle for every key
\* in order, in one synchronous section; the first of them finds the engine
\* as get(key) does and calls scheduleDispatch, the later ones find the
\* dispatch scheduled.  The promise returned is Promise.all of theirs.
RECURSIVE IntakeRest(_, _, _, _)
IntakeRest(t, ks, i, pk) ==
    IF i > Len(ks) THEN t
    ELSE IntakeRest(Intake(t, ks[i], pk), ks, i + 1, pk \cup {KeyFn(ks[i])})

GetMany(ks) ==
    LET first == Len(reqs) + 1
        ids == [i \in 1..Len(ks) |-> Len(reqs) + i]
        q1 == Append(queue, first)
    IN  /\ Len(reqs) + Len(ks) <= MaxReq
        /\ reqs' = reqs \o [i \in 1..Len(ks) |->
                               [NewRequest(ks[i]) EXCEPT
                                   !.listening = FALSE,
                                   !.group = first,
                                   !.batchId = IF i = 1
                                               THEN ScheduledId(q1, tracer)
                                               ELSE 0]]
        /\ queue' = queue \o ids
        /\ pendingKeys' = pendingKeys \cup {KeyFn(ks[i]) : i \in 1..Len(ks)}
        /\ ScheduleDispatch(q1)
        /\ tracer' = IntakeRest(
                         ScheduleTrace(q1, Intake(tracer, ks[1], pendingKeys)),
                         ks, 2, pendingKeys \cup {KeyFn(ks[1])})
        /\ UNCHANGED <<max, activeRequests, cycles, calls>>

\* the get(keys) calls made, each named by its first request
Groups == {reqs[r].group : r \in Ids} \ {0}

\* the requests of a get(keys) call, in the order of its keys
Members(g) == SelectSeq([i \in 1..Len(reqs) |-> i], LAMBDA r : reqs[r].group = g)

\* a combinator that is fulfilled as soon as one member is fulfilled
PromiseAnyFulfilled(g) ==
    LET ms == Members(g)
    IN  IF \E i \in 1..Len(ms) : reqs[ms[i]].kind = "resolved"
        THEN [kind |-> "resolved",
              value |-> [i \in 1..Len(ms) |-> reqs[ms[i]].value]]
        ELSE IF \A i \in 1..Len(ms) : reqs[ms[i]].kind = "rejected"
        THEN [kind |-> "rejected", value |-> <<>>]
        ELSE [kind |-> "pending", value |-> <<>>]

\* Promise.all over the promises of the members: rejected as soon as one of
\* them is rejected, fulfilled when all are fulfilled, with their values in
\* the order of the members
PromiseAll(g) ==
    LET ms == Members(g)
    IN  IF \E i \in 1..Len(ms) : reqs[ms[i]].kind = "rejected"
        THEN [kind |-> "rejected", value |-> <<>>]
        ELSE IF \A i \in 1..Len(ms) : reqs[ms[i]].kind = "resolved"
        THEN [kind |-> "resolved",
              value |-> [i \in 1..Len(ms) |-> reqs[ms[i]].value]]
        ELSE [kind |-> "pending", value |-> <<>>]

\* the statement `queue = []` of dispatch, after the snapshot is taken
KeepQueue(q) == q
ClearQueue(q) == <<>>

\* dispatch(batchId), a snapshot of the queue cut into chunks and the first
\* chunk brought to its resolver call.  cleanupNow is the value of
\* `cleanup # null` when dispatch is entered; calling it is a no-op for the
\* scheduler, whose callback has either just run or has been cancelled by
\* flush.  batchId is 0 for undefined: the first chunk then takes a new id.
Dispatch(cleanupNow, batchId) ==
    LET activeQueue == SelectSeq(queue, LAMBDA r : ~reqs[r].aborted)
        chunks == MakeChunks(activeQueue, max)
        c == Len(cycles) + 1
        t == IF batchId # 0 THEN tracer ELSE NextBatchId(tracer)
        chunkBatchId == IF batchId # 0 THEN batchId ELSE t.batchCounter
        started == ProcessChunkStart(reqs, calls, c, 1, chunks[1], chunkBatchId)
    IN  IF Len(activeQueue) = 0
        THEN /\ queue' = <<>>
             /\ pendingKeys' = {}
             /\ cleanup' = cleanupNow
             /\ UNCHANGED <<reqs, activeRequests, cycles, calls, tracer>>
        ELSE /\ cleanup' = FALSE
             /\ tracer' = DispatchTrace(t, calls, started)
             /\ activeRequests' = activeRequests \cup SeqToSet(activeQueue)
             /\ queue' = ClearQueue(queue)
             /\ pendingKeys' = {}
             /\ cycles' = Append(cycles, [batch |-> activeQueue, chunks |-> chunks,
                                       next |-> 2])
             /\ reqs' = started.reqs
             /\ calls' = started.calls

\* the callback handed to the scheduler runs
ScheduleFires ==
    \E x \in callbacks :
        /\ callbacks' = callbacks \ {x}
        /\ isScheduled' = FALSE
        /\ Dispatch(cleanup, reqs[x].batchId)
        /\ UNCHANGED max

\* flush()
FlushWithoutCancel ==
    /\ UNCHANGED callbacks
    /\ isScheduled' = FALSE
    /\ Dispatch(FALSE, 0)
    /\ UNCHANGED max
Flush ==
    /\ callbacks' = CallCleanup(callbacks)
    /\ isScheduled' = FALSE
    /\ Dispatch(FALSE, 0)
    /\ UNCHANGED max

\* the loop of dispatch goes on after `await processChunk(...)`: the call
\* of the previous chunk has returned
NotAwaited(c) == TRUE
ChunkAwaited(c) == \A i \in 1..Len(calls) : calls[i].cycle = c => calls[i].done

StartChunk(c) ==
    /\ c \in 1..Len(cycles)
    /\ cycles[c].next <= Len(cycles[c].chunks)
    /\ ChunkAwaited(c)
    /\ LET n == cycles[c].next
           t == NextBatchId(tracer)
           started == ProcessChunkStart(reqs, calls, c, n, cycles[c].chunks[n],
                                        t.batchCounter)
       IN  /\ reqs' = started.reqs
           /\ calls' = started.calls
           /\ cycles' = [cycles EXCEPT ![c].next = n + 1]
           /\ tracer' = DispatchTrace(t, calls, started)
    /\ UNCHANGED <<max, queue, pendingKeys, activeRequests, isScheduled,
                   cleanup, callbacks>>

\* the promise of the dispatch() that started cycle c is resolved: the loop
\* over its chunks has ended, every processChunk awaited.  flush() awaits
\* this promise and returns, so its own promise is resolved with it.
DispatchReturned(c) ==
    /\ cycles[c].next > Len(cycles[c].chunks)
    /\ ChunkAwaited(c)

\* ------------------------------------------------------------- results
\* What the resolver's promise can settle with: it rejects; it fulfils with
\* something that is not an array; it fulfils with an array that holds an
\* item for the keys in `items`, matched by a function that throws when it
\* is asked for the key at position throwAt of uniqueKeys (0: never).
Responses(call) ==
    {[kind |-> "rejects", items |-> {}, throwAt |-> 0],
     [kind |-> "nonarray", items |-> {}, throwAt |-> 0]}
    \cup {[kind |-> "array", items |-> it, throwAt |-> t] :
            it \in SUBSET SeqToSet(call.uniqueKeys),
            t \in 0..Len(call.uniqueKeys)}

\* matchFn(arrayResults, key): the item found for the key, 0 for undefined
MatchFn(items, key) == IF key \in items THEN key ELSE 0

\* the requests in keyToRequests.values()
Grouped(call) ==
    UNION {SeqToSet(call.keyToRequests[ck]) : ck \in DOMAIN call.keyToRequests}

\* for (const request of requests) rejectAsAborted(request)
RECURSIVE RejectAllAsAborted(_, _)
RejectAllAsAborted(st, S) ==
    IF S = {} THEN st
    ELSE LET r == CHOOSE x \in S : TRUE
         IN  RejectAllAsAborted(RejectAsAborted(st, r), S \ {r})

\* the catch block: if (!request.aborted) request.reject(err)
RECURSIVE RejectLive(_, _, _)
RejectLive(st, S, err) ==
    IF S = {} THEN st
    ELSE LET r == CHOOSE x \in S : TRUE
         IN  RejectLive(IF st.reqs[r].aborted THEN st ELSE Reject(st, r, err),
                        S \ {r}, err)

\* the inner loop of the distribution, for one key's requests
RECURSIVE SettleKey(_, _, _, _)
SettleKey(st, requests, i, value) ==
    IF i > Len(requests) THEN st
    ELSE LET r == requests[i]
         IN  SettleKey(IF st.reqs[r].aborted THEN st
                       ELSE IF value = 0 THEN Reject(st, r, "NoResult")
                       ELSE Resolve(st, r, value),
                       requests, i + 1, value)

\* keyToRequests.get(keyFn(key))
FirstRequestFor(call, key) == <<Head(call.keyToRequests[KeyFn(key)])>>
RequestsFor(call, key) == call.keyToRequests[KeyFn(key)]

\* for (const key of uniqueKeys) ..., from position pos on
RECURSIVE Distribute(_, _, _, _)
Distribute(st, call, resp, pos) ==
    IF pos > Len(call.uniqueKeys) THEN st
    ELSE IF resp.throwAt = pos THEN RejectLive(st, Grouped(call), "MatchError")
    ELSE LET key == call.uniqueKeys[pos]
             requests == RequestsFor(call, key)
             value == MatchFn(resp.items, key)
         IN  Distribute(SettleKey(st, requests, 1, value), call, resp, pos + 1)

\* processChunk from the return of `await fn(uniqueKeys, signal)` on
ProcessChunkEndFailsActive(st, call, resp) ==
    IF resp.kind = "rejects"
    THEN RejectLive(st, Grouped(call) \cup st.activeRequests, "ResolverError")
    ELSE IF call.signalAborted THEN RejectAllAsAborted(st, Grouped(call))
    ELSE IF resp.kind = "nonarray" THEN RejectLive(st, Grouped(call), "BadShape")
    ELSE Distribute(st, call, resp, 1)
ProcessChunkEnd(st, call, resp) ==
    IF resp.kind = "rejects" THEN RejectLive(st, Grouped(call), "ResolverError")
    ELSE IF call.signalAborted THEN RejectAllAsAborted(st, Grouped(call))
    ELSE IF resp.kind = "nonarray" THEN RejectLive(st, Grouped(call), "BadShape")
    ELSE Distribute(st, call, resp, 1)

\* the events processChunk emits from the return of `await fn(...)` on:
\* 'abort' when the signal is aborted; 'error' from the catch block when the
\* resolver failed; 'resolve' before the distribution, and then 'error' from
\* the catch block when the shape check or the match function throws
EndTypes(call, resp) ==
    IF call.signalAborted THEN <<"abort">>
    ELSE IF resp.kind = "rejects" THEN <<"error">>
    ELSE IF resp.kind = "nonarray" \/ resp.throwAt # 0 THEN <<"resolve", "error">>
    ELSE <<"resolve">>

EndTrace(t, call, types) ==
    EmitAll(t, [j \in 1..Len(types) |-> Event(types[j], call.batchId, 0)])

\* the resolver's promise settles and processChunk runs to its end
ResolverSettles(i, resp) ==
    /\ i \in InFlightChunks
    /\ resp \in Responses(calls[i])
    /\ LET st == ProcessChunkEnd(St(reqs, activeRequests), calls[i], resp)
       IN  /\ reqs' = st.reqs
           /\ activeRequests' = st.activeRequests
    /\ calls' = [calls EXCEPT ![i].done = TRUE]
    /\ tracer' = EndTrace(tracer, calls[i], EndTypes(calls[i], resp))
    /\ UNCHANGED <<max, queue, pendingKeys, isScheduled, cleanup, callbacks, cycles>>

\* ------------------------------------------------------------- catch
\* What the resolver's promise can reject with (or the resolver throw): an
\* Error instance, or a value that is not an Error, here a string.
Thrown == {"ResolverError", "text"}

\* error instanceof Error ? error : new Error(String(error))
ToErrorVerbatim(thrown) == thrown
ToError(thrown) ==
    IF thrown = "ResolverError" THEN thrown ELSE "WrappedError"

\* the resolver's promise rejects with `thrown`: the catch block of
\* processChunk and its finally; the call keeps what was thrown
ResolverRejects(i, thrown) ==
    /\ i \in InFlightChunks
    /\ thrown \in Thrown
    /\ LET st == RejectLive(St(reqs, activeRequests), Grouped(calls[i]),
                            ToError(thrown))
       IN  /\ reqs' = st.reqs
           /\ activeRequests' = st.activeRequests
    /\ calls' = [calls EXCEPT ![i] =
                   [@ EXCEPT !.done = TRUE] @@ [thrown |-> thrown]]
    /\ tracer' = EndTrace(tracer, calls[i],
                          IF calls[i].signalAborted THEN <<"abort">>
                          ELSE <<"error">>)
    /\ UNCHANGED <<max, queue, pendingKeys, isScheduled, cleanup, callbacks,
                   cycles>>

\* ------------------------------------------------------------- indexed
\* The engine built with match = indexed.  Key 4 stands for a key whose
\* string names a property that every object inherits from Object.prototype
\* (such as 'constructor' or 'toString'); key 1 names no such property.
IndexedKeys == {1, 4}

OnPrototype(k) == k = 4

\* What the resolver's promise can settle with under indexed matching: it
\* rejects; it fulfils with null; with a record that has own entries for
\* the keys in `items`; with an array of two elements in place of a record.
ResponsesIndexed(call) ==
    {[kind |-> "rejects", items |-> {}],
     [kind |-> "null", items |-> {}],
     [kind |-> "array", items |-> {}]}
    \cup {[kind |-> "record", items |-> it] :
            it \in SUBSET SeqToSet(call.uniqueKeys)}

\* createIndexedMatcher: results[String(key)], a property lookup that also
\* finds inherited properties and, on an array, its elements by position.
\* The entry of a record for key k is written k, the element at position j
\* of the array 10 + j, an inherited property -1, undefined 0.
IndexedMatcher(resp, key) ==
    IF resp.kind = "record" /\ key \in resp.items THEN key
    ELSE IF resp.kind = "array" /\ key \in {0, 1} THEN 10 + key
    ELSE IF OnPrototype(key) THEN -1
    ELSE 0

\* for (const key of uniqueKeys) ... of the indexed branch, from pos on
RECURSIVE DistributeIndexed(_, _, _, _)
DistributeIndexed(st, call, resp, pos) ==
    IF pos > Len(call.uniqueKeys) THEN st
    ELSE LET key == call.uniqueKeys[pos]
             requests == RequestsFor(call, key)
             value == IndexedMatcher(resp, key)
         IN  DistributeIndexed(SettleKey(st, requests, 1, value),
                               call, resp, pos + 1)

\* processChunk from the return of `await fn(uniqueKeys, signal)` on, with
\* isIndexedMatch: a property lookup on null throws a TypeError, which the
\* catch block hands to the requests
ProcessChunkEndIndexed(st, call, resp) ==
    IF resp.kind = "rejects" THEN RejectLive(st, Grouped(call), "ResolverError")
    ELSE IF call.signalAborted THEN RejectAllAsAborted(st, Grouped(call))
    ELSE IF resp.kind = "null" THEN RejectLive(st, Grouped(call), "TypeError")
    ELSE DistributeIndexed(st, call, resp, 1)

\* the resolver's promise settles and processChunk runs to its end; the
\* call keeps what the resolver returned
ResolverSettlesIndexed(i, resp) ==
    /\ i \in InFlightChunks
    /\ resp \in ResponsesIndexed(calls[i])
    /\ LET st == ProcessChunkEndIndexed(St(reqs, activeRequests), calls[i], resp)
       IN  /\ reqs' = st.reqs
           /\ activeRequests' = st.activeRequests
    /\ calls' = [calls EXCEPT ![i] =
                   [@ EXCEPT !.done = TRUE]
                       @@ [result |-> resp, abortedAtReturn |-> @.signalAborted]]
    /\ tracer' = EndTrace(tracer, calls[i],
                          IF calls[i].signalAborted THEN <<"abort">>
                          ELSE IF resp.kind = "rejects" THEN <<"error">>
                          ELSE IF resp.kind = "null" THEN <<"resolve", "error">>
                          ELSE <<"resolve">>)
    /\ UNCHANGED <<max, queue, pendingKeys, isScheduled, cleanup, callbacks,
                   cycles>>

\* ------------------------------------------------------------- cancellation
\* if (cleanup) { cleanup(); cleanup = null }  isScheduled = false
CancelButStayScheduled ==
    /\ cleanup' = FALSE
    /\ callbacks' = CallCleanup(callbacks)
    /\ UNCHANGED isScheduled
ForgetSchedule ==
    /\ cleanup' = FALSE
    /\ isScheduled' = FALSE
    /\ UNCHANGED callbacks
CancelSchedule ==
    /\ cleanup' = FALSE
    /\ callbacks' = CallCleanup(callbacks)
    /\ isScheduled' = FALSE

\* abort() without its loop over activeRequests
AbortQueueOnly ==
    /\ LET st1 == RejectAllAsAborted(St(reqs, activeRequests), SeqToSet(queue))
       IN  /\ reqs' = st1.reqs
           /\ activeRequests' = st1.activeRequests
    /\ queue' = <<>>
    /\ pendingKeys' = {}
    /\ calls' = [i \in DOMAIN calls |->
                   IF i \in InFlightChunks
                   THEN [calls[i] EXCEPT !.signalAborted = TRUE] ELSE calls[i]]
    /\ CancelSchedule
    /\ UNCHANGED <<max, cycles, tracer>>
\* abort()
Abort ==
    /\ LET st1 == RejectAllAsAborted(St(reqs, activeRequests), SeqToSet(queue))
           st2 == RejectAllAsAborted(st1, st1.activeRequests)
       IN  /\ reqs' = st2.reqs
           /\ activeRequests' = st2.activeRequests
    /\ queue' = <<>>
    /\ pendingKeys' = {}
    /\ calls' = [i \in DOMAIN calls |->
                   IF i \in InFlightChunks
                   THEN [calls[i] EXCEPT !.signalAborted = TRUE] ELSE calls[i]]
    /\ CancelSchedule
    /\ UNCHANGED <<max, cycles, tracer>>

\* requestToInFlightChunk.get(request), read by onAbort before it rejects
\* (0: undefined)
InFlightAfterReject(req) == 0
InFlightOf(req) == req.chunkOf

\* inFlight.requests.every((r) => r.aborted)
SomeRequestAborted(rq, requests) ==
    \E x \in SeqToSet(requests) : rq[x].aborted
AllRequestsAborted(rq, requests) ==
    \A x \in SeqToSet(requests) : rq[x].aborted

\* queue.length > 0 && queue.every((r) => r.aborted)
SomeQueuedAborted(rq, q) == \E x \in SeqToSet(q) : rq[x].aborted
QueueNeverAllAborted(rq, q) == FALSE
AllQueuedAborted(rq, q) ==
    Len(q) > 0 /\ \A x \in SeqToSet(q) : rq[x].aborted

\* The signal given to get() for request r fires while onAbort is still
\* registered (the listener is removed when the request settles).
FireSignal(r) ==
    /\ r \in Ids
    /\ reqs[r].listening
    /\ LET inFlight == InFlightOf(reqs[r])
           st == Reject(St([reqs EXCEPT ![r].fired = TRUE,
                                        ![r].aborted = TRUE],
                           activeRequests), r, "AbortError")
       IN  /\ reqs' = st.reqs
           /\ activeRequests' = st.activeRequests
           /\ IF inFlight # 0
              THEN /\ calls' =
                        IF AllRequestsAborted(st.reqs, calls[inFlight].requests)
                        THEN [calls EXCEPT ![inFlight].signalAborted = TRUE]
                        ELSE calls
                   /\ UNCHANGED <<queue, pendingKeys, isScheduled,
                                  cleanup, callbacks>>
              ELSE /\ UNCHANGED calls
                   /\ IF AllQueuedAborted(st.reqs, queue)
                      THEN /\ queue' = <<>>
                           /\ pendingKeys' = {}
                           /\ CancelSchedule
                      ELSE UNCHANGED <<queue, pendingKeys, isScheduled,
                                       cleanup, callbacks>>
    /\ UNCHANGED <<max, cycles, tracer>>

\* The signal given to get() for request r fires after the request has
\* settled: resolve and reject have removed the listener, onAbort does not
\* run, and only the signal changes.
SignalAfterSettle(r) ==
    /\ r \in Ids
    /\ ~reqs[r].listening
    /\ ~reqs[r].fired
    /\ reqs' = [reqs EXCEPT ![r].fired = TRUE]
    /\ UNCHANGED <<max, queue, pendingKeys, activeRequests, isScheduled,
                   cleanup, callbacks, cycles, calls, tracer>>

Next ==
    \/ \E k \in Keys : Get(k)
    \/ ScheduleFires
    \/ Flush
    \/ \E c \in 1..Len(cycles) : StartChunk(c)
    \/ \E i \in 1..Len(calls) : \E resp \in Responses(calls[i]) :
          ResolverSettles(i, resp)
    \/ Abort
    \/ \E r \in Ids : FireSignal(r)

Spec == Init /\ [][Next]_vars

\* The scheduler invokes the callback it was given unless it is cancelled,
\* the event loop runs the continuation of every await, and every resolver
\* call settles.
SomeResponse(i) ==
    /\ i \in 1..Len(calls)
    /\ \E resp \in Responses(calls[i]) : ResolverSettles(i, resp)

FairSpec ==
    /\ Spec
    /\ WF_vars(ScheduleFires)
    /\ \A c \in 1..MaxReq : WF_vars(StartChunk(c))
    /\ \A i \in 1..MaxReq : WF_vars(SomeResponse(i))

\* the keys that are their own normalized key
PlainKeys == {1, 2}

\* the engine with callers that ask for the keys of PlainKeys
NextPlain ==
    \/ \E k \in PlainKeys : Get(k)
    \/ ScheduleFires
    \/ Flush
    \/ \E c \in 1..Len(cycles) : StartChunk(c)
    \/ \E i \in 1..Len(calls) : \E resp \in Responses(calls[i]) :
          ResolverSettles(i, resp)
    \/ Abort
    \/ \E r \in Ids : FireSignal(r)

\* the engine with callers whose signals also fire after their requests
\* have settled
NextLate ==
    \/ NextPlain
    \/ \E r \in Ids : SignalAfterSettle(r)

SpecLate == Init /\ [][NextLate]_vars

\* the engine with callers that also pass signals that are already aborted
\* and empty key lists
NextIntake ==
    \/ Next
    \/ \E k \in Keys : GetAborted(k)
    \/ GetEmpty

SpecIntake == Init /\ [][NextIntake]_vars

\* the engine under a scheduler whose callback has not come by the time
\* flush() is called (a long wait window): only flush() starts a dispatch
NextNoTimer ==
    \/ \E k \in Keys : Get(k)
    \/ Flush
    \/ \E c \in 1..Len(cycles) : StartChunk(c)
    \/ \E i \in 1..Len(calls) : \E resp \in Responses(calls[i]) :
          ResolverSettles(i, resp)
    \/ Abort
    \/ \E r \in Ids : FireSignal(r)

SpecNoTimer == Init /\ [][NextNoTimer]_vars

\* the engine built with match = indexed
NextIndexed ==
    \/ \E k \in IndexedKeys : Get(k)
    \/ ScheduleFires
    \/ Flush
    \/ \E c \in 1..Len(cycles) : StartChunk(c)
    \/ \E i \in 1..Len(calls) : \E resp \in ResponsesIndexed(calls[i]) :
          ResolverSettlesIndexed(i, resp)
    \/ Abort
    \/ \E r \in Ids : FireSignal(r)

SpecIndexed == Init /\ [][NextIndexed]_vars

\* the engine with a resolver that also rejects with values that are not
\* Error instances
NextThrows ==
    \/ NextPlain
    \/ \E i \in 1..Len(calls) : \E thrown \in Thrown : ResolverRejects(i, thrown)

SpecThrows == Init /\ [][NextThrows]_vars

\* the engine built with a trace handler that throws on some events
NextTrace ==
    \/ NextPlain
    \/ \E k \in PlainKeys : \E event \in GetEvents : GetTraceThrows(k, event)

SpecTrace == InitThrows /\ [][NextTrace]_vars

\* the engine built with a trace handler that records the events: all of
\* them, the 'dispatch' events only, the 'get' and 'dedup' events only (these
\* callers ask for every key of Keys, two of which normalize to the same)
SpecTraced == InitTraced /\ [][NextPlain]_vars
SpecChunkTraced == InitChunkTraced /\ [][NextPlain]_vars
SpecIntakeTraced == InitIntakeTraced /\ [][Next]_vars

\* the engine with callers that also use get(keys)
NextMany ==
    \/ Next
    \/ \E ks \in KeyLists : GetMany(ks)

SpecMany == Init /\ [][NextMany]_vars

\* the engine with a burst of MaxReq + 1 requests in one tick
NextBurst ==
    \/ NextPlain
    \/ \E k \in PlainKeys : GetInBurst(k)

SpecBurst == Init /\ [][NextBurst]_vars
\* ------------------------------------------------------------- properties
Pending(r) == reqs[r].kind = "pending"

\* every step of the next-state relation N that changes the state satisfies
\* the action A: no state has a successor by N that differs from it and
\* falsifies A
EveryStep(N, A) == ~ENABLED (N /\ ~(A \/ UNCHANGED vars))

\* the requests of a cycle, over all its chunks
CycleRequests(c) ==
    UNION {SeqToSet(cycles[c].chunks[n]) : n \in 1..Len(cycles[c].chunks)}

\* the resolver calls made for a cycle, in the order they were made
CycleCalls(c) == SelectSeq([i \in 1..Len(calls) |-> i],
                           LAMBDA i : calls[i].cycle = c)

\* C1: a request settles at most once: resolvePromise/rejectPromise is
\* called at most one time for it, whatever resolution and cancellation
\* paths race, and a settled request keeps its outcome in every later step.
C1_SettlesAtMostOnce ==
    /\ \A r \in Ids : reqs[r].settles <= 1
    /\ EveryStep(Next,
          \A r \in Ids : ~Pending(r) =>
            /\ reqs'[r].kind = reqs[r].kind
            /\ reqs'[r].value = reqs[r].value
            /\ reqs'[r].error = reqs[r].error)

\* a chunk whose distribution resolved one request and then ran the catch
\* block over all its requests, the resolved one included
C1_Witness ==
    \E i \in 1..Len(calls) : \E r1, r2 \in Grouped(calls[i]) :
        /\ calls[i].done
        /\ reqs[r1].kind = "resolved"
        /\ reqs[r2].error = "MatchError"
        /\ reqs[r1].settles = 1
\* C2: when the scheduler runs its callback and every resolver call
\* settles, every request created by get() is eventually settled: from
\* every state a state is reached in which no request is pending.
C2_EveryGetSettles == []<>(\A r \in Ids : ~Pending(r))

\* a request of the second chunk of a cycle was settled by its own resolver
\* call, after the scheduler fired and the first chunk's call returned
C2_Witness ==
    \E i \in 1..Len(calls) : \E r \in Grouped(calls[i]) :
        /\ calls[i].done
        /\ calls[i].chunk = 2
        /\ reqs[r].kind = "resolved"
\* chunk n of cycle c is in flight: its resolver call has not returned
ChunkInFlight(c, n) ==
    \E i \in InFlightChunks : calls[i].cycle = c /\ calls[i].chunk = n

\* chunk n of cycle c has not been started by the loop of dispatch
ChunkNotStarted(c, n) == n >= cycles[c].next

\* C3: every request that has not settled is in the queue or in a chunk,
\* in flight or not yet started, of a dispatch cycle; none is dropped.
C3_NoRequestDropped ==
    \A r \in Ids : Pending(r) =>
        \/ r \in SeqToSet(queue)
        \/ \E c \in 1..Len(cycles) : \E n \in 1..Len(cycles[c].chunks) :
              /\ r \in SeqToSet(cycles[c].chunks[n])
              /\ ChunkInFlight(c, n) \/ ChunkNotStarted(c, n)

\* a pending request in the chunk in flight and another in the chunk
\* that waits for it
C3_Witness ==
    \E c \in 1..Len(cycles) : \E a, b \in Ids :
        /\ Pending(a) /\ Pending(b)
        /\ a \in SeqToSet(cycles[c].chunks[1]) /\ ChunkInFlight(c, 1)
        /\ Len(cycles[c].chunks) = 2
        /\ b \in SeqToSet(cycles[c].chunks[2]) /\ ChunkNotStarted(c, 2)
\* the keys of a sequence of requests, in order
KeysOf(requests) == [i \in 1..Len(requests) |-> reqs[requests[i]].key]

\* a sequence of keys without the keys whose normalized key occurs earlier
FirstOccurrences(ks) ==
    LET first == {i \in 1..Len(ks) :
                    \A j \in 1..(i - 1) : KeyFn(ks[j]) # KeyFn(ks[i])}
        nth(n) == CHOOSE i \in first : Cardinality({j \in first : j <= i}) = n
    IN  [n \in 1..Cardinality(first) |-> ks[nth(n)]]

NoneCancelled(requests) == \A r \in SeqToSet(requests) : ~reqs[r].aborted

\* C4: without a max, a dispatch that finds the queue with no cancelled
\* request makes one resolver call, with the queued keys deduplicated by
\* normalized key in first-occurrence order, and the cycle never gets
\* another call.
C4_OneCallWithUniqueKeys ==
    /\ EveryStep(Next,
          (Len(cycles') > Len(cycles) /\ max = 0 /\ NoneCancelled(queue)) =>
            /\ Len(calls') = Len(calls) + 1
            /\ calls'[Len(calls')].cycle = Len(cycles')
            /\ calls'[Len(calls')].uniqueKeys = FirstOccurrences(KeysOf(queue)))
    /\ max = 0 => \A c \in 1..Len(cycles) : Len(CycleCalls(c)) = 1

\* get('a'), get('b'), get('a') dispatched as one call with ['a', 'b']
C4_Witness ==
    \E i \in 1..Len(calls) :
        /\ max = 0
        /\ KeysOf(calls[i].requests) = <<1, 2, 1>>
        /\ NoneCancelled(calls[i].requests)
        /\ calls[i].uniqueKeys = <<1, 2>>
\* the requests of a call's chunk that ask for normalized key ck and were
\* not cancelled when the call returned
Wanting(i, ck) ==
    {r \in SeqToSet(calls[i].requests) :
        KeyFn(reqs[r].key) = ck /\ ~reqs[r].aborted}

\* the positions of uniqueKeys that hold normalized key ck
EntriesFor(i, ck) ==
    {p \in 1..Len(calls[i].uniqueKeys) : KeyFn(calls[i].uniqueKeys[p]) = ck}

CeilDiv(k, m) == (k + m - 1) \div m

Min(a, b) == IF a < b THEN a ELSE b

\* the loop of dispatch has gone through every chunk of cycle c
CycleComplete(c) ==
    cycles[c].next > Len(cycles[c].chunks) /\ ChunkAwaited(c)

\* C6: with max M, a cycle of K requests none of which is cancelled has
\* ceil(K/M) chunks, consecutive runs of M requests in enqueue order; the
\* resolver is called once per chunk, in chunk order, with at most M keys,
\* and ceil(K/M) times when the cycle is complete.
C6_CeilChunksInOrder ==
    \A c \in 1..Len(cycles) :
        (max > 0 /\ NoneCancelled(cycles[c].batch)) =>
            LET batch == cycles[c].batch
                K == Len(batch)
                made == CycleCalls(c)
            IN  /\ \A a, b \in 1..K : a < b => batch[a] < batch[b]
                /\ Len(cycles[c].chunks) = CeilDiv(K, max)
                /\ \A n \in 1..Len(cycles[c].chunks) :
                      cycles[c].chunks[n] =
                          SubSeq(batch, (n - 1) * max + 1, Min(n * max, K))
                /\ Len(made) = cycles[c].next - 1
                /\ CycleComplete(c) => Len(made) = CeilDiv(K, max)
                /\ \A j \in 1..Len(made) :
                      /\ calls[made[j]].chunk = j
                      /\ Len(calls[made[j]].uniqueKeys) <= max
                      /\ calls[made[j]].uniqueKeys =
                            FirstOccurrences(KeysOf(cycles[c].chunks[j]))

\* max 2 and three requests with distinct keys: two calls, of 2 and 1 keys
C6_Witness ==
    \E c \in 1..Len(cycles) :
        /\ max > 0
        /\ CycleComplete(c)
        /\ NoneCancelled(cycles[c].batch)
        /\ Len(cycles[c].batch) = 3
        /\ Len(CycleCalls(c)) = 2
        /\ calls[CycleCalls(c)[1]].uniqueKeys = <<1, 2>>
        /\ calls[CycleCalls(c)[2]].uniqueKeys = <<3>>
\* the normalized keys a sequence of requests asks for
NormalizedKeys(requests) == {KeyFn(reqs[r].key) : r \in SeqToSet(requests)}

\* C7: a cycle with U distinct normalized keys and max M, none of its
\* requests cancelled, makes ceil(U/M) resolver calls when complete, and
\* no normalized key is in the key lists of two calls of the cycle.
C7_FewestCalls ==
    \A c \in 1..Len(cycles) :
        (max > 0 /\ NoneCancelled(cycles[c].batch)) =>
            LET made == CycleCalls(c)
                U == Cardinality(NormalizedKeys(cycles[c].batch))
            IN  /\ CycleComplete(c) => Len(made) = CeilDiv(U, max)
                /\ \A j1, j2 \in 1..Len(made) : j1 # j2 =>
                      {KeyFn(k) : k \in SeqToSet(calls[made[j1]].uniqueKeys)}
                      \cap
                      {KeyFn(k) : k \in SeqToSet(calls[made[j2]].uniqueKeys)}
                      = {}

\* C8: the chunks of one cycle go to the resolver one after the other: a
\* cycle never has two calls in flight, its calls are made in chunk order,
\* and a call is made only when the cycle's earlier calls have returned.
C8_ChunksSequential ==
    /\ (\A c \in 1..Len(cycles) :
          /\ Cardinality({i \in InFlightChunks : calls[i].cycle = c}) <= 1
          /\ \A i1, i2 \in 1..Len(calls) :
                (calls[i1].cycle = c /\ calls[i2].cycle = c /\ i1 < i2) =>
                    calls[i1].chunk < calls[i2].chunk)
    /\ EveryStep(Next,
          Len(calls') > Len(calls) =>
            \A i \in 1..Len(calls) :
                calls[i].cycle = calls'[Len(calls')].cycle => calls[i].done)

\* the call of a second chunk in flight, after the first chunk's returned
C8_Witness ==
    \E i1, i2 \in 1..Len(calls) :
        /\ calls[i1].cycle = calls[i2].cycle
        /\ calls[i1].chunk = 1 /\ calls[i1].done
        /\ calls[i2].chunk = 2 /\ ~calls[i2].done

\* C9: a cycle's chunks are fixed when dispatch takes its snapshot.  A
\* request created later is put in the queue and in no existing cycle; the
\* cycles hold disjoint, successive runs of requests, every queued request
\* is newer than every dispatched one, and a resolver call carries requests
\* of its own cycle only.
C9_LaterGetsStartFreshCycle ==
    /\ (/\ \A c1, c2 \in 1..Len(cycles) : c1 < c2 =>
              \A a \in CycleRequests(c1), b \in CycleRequests(c2) : a < b
        /\ \A c \in 1..Len(cycles) :
              \A a \in CycleRequests(c), q \in SeqToSet(queue) : a < q
        /\ \A i \in 1..Len(calls) :
              SeqToSet(calls[i].requests) \subseteq CycleRequests(calls[i].cycle))
    /\ EveryStep(Next,
          /\ \A c \in 1..Len(cycles) :
                /\ cycles'[c].batch = cycles[c].batch
                /\ cycles'[c].chunks = cycles[c].chunks
          /\ Len(reqs') > Len(reqs) =>
                /\ Len(reqs') \in SeqToSet(queue')
                /\ Len(cycles') = Len(cycles)
                /\ \A c \in 1..Len(cycles) : Len(reqs') \notin CycleRequests(c))

\* the resolver calls of two cycles in flight at the same time
C9_Witness ==
    \E i1, i2 \in InFlightChunks :
        /\ calls[i1].cycle < calls[i2].cycle
        /\ \E r \in SeqToSet(calls[i2].requests) : Pending(r)
        /\ \E r \in SeqToSet(calls[i1].requests) : Pending(r)

\* C10: a step of abort() leaves no request pending and the queue empty;
\* every request it found pending, queued or dispatched, is rejected with
\* an AbortError.
C10_AbortSettlesAll ==
    EveryStep(Abort,
         /\ queue' = <<>>
         /\ \A r \in Ids :
               /\ reqs'[r].kind # "pending"
               /\ Pending(r) =>
                     reqs'[r].kind = "rejected" /\ reqs'[r].error = "AbortError")

\* abort() called while the first chunk's call was in flight and the second
\* chunk waited: requests of both rejected by it, not by their own signals
C10_Witness ==
    \E i \in InFlightChunks : \E a, b \in Ids :
        /\ calls[i].signalAborted
        /\ calls[i].chunk = 1
        /\ a \in SeqToSet(cycles[calls[i].cycle].chunks[1])
        /\ Len(cycles[calls[i].cycle].chunks) = 2
        /\ b \in SeqToSet(cycles[calls[i].cycle].chunks[2])
        /\ \A r \in {a, b} :
              /\ reqs[r].error = "AbortError"
              /\ reqs[r].aborted /\ ~reqs[r].fired

\* a request that abort() rejected while it was queued: it carries the
\* aborted mark, its own signal never fired, and no dispatch ever took it
AbortedInQueue(v) ==
    /\ reqs[v].aborted /\ ~reqs[v].fired
    /\ \A c \in 1..Len(cycles) : v \notin CycleRequests(c)

\* a request created after a call of abort() and not cancelled since: an
\* older request was in the queue when abort() ran, and had this request
\* existed then, abort() would have rejected it too
BornAfterAbort(r) ==
    /\ ~reqs[r].aborted
    /\ \E v \in Ids : v < r /\ AbortedInQueue(v)

\* C11: a get() issued after abort() starts a cycle of its own.  While
\* queued it has a schedule pending; it is never lost; the resolver call
\* that carries it has a signal that is not aborted, created so and left so
\* by the earlier abort(); it never settles with an AbortError, and when it
\* resolves it holds the item matched for its key.  A step of abort() aborts
\* the signals of the calls in flight at that step and no others.
C11_GetAfterAbortIndependent ==
    /\ (\A r \in Ids : BornAfterAbort(r) =>
          /\ r \in SeqToSet(queue) => isScheduled /\ timer
          /\ Pending(r) =>
                \/ r \in SeqToSet(queue)
                \/ \E c \in 1..Len(cycles) : r \in CycleRequests(c)
          /\ \A i \in 1..Len(calls) :
                r \in SeqToSet(calls[i].requests) => ~calls[i].signalAborted
          /\ reqs[r].kind = "rejected" => reqs[r].error # "AbortError"
          /\ reqs[r].kind = "resolved" =>
                KeyFn(reqs[r].value) = KeyFn(reqs[r].key))
    /\ EveryStep(Next,
          \A i \in 1..Len(calls') :
              i > Len(calls) => ~calls'[i].signalAborted)
    /\ EveryStep(Abort,
          \A i \in 1..Len(calls) :
              calls'[i].signalAborted =>
                  calls[i].signalAborted \/ i \in InFlightChunks)

\* abort() found one call in flight and one request queued; a get() made
\* after it was dispatched and resolved with its value while the aborted
\* call was still running
C11_Witness ==
    \E i \in InFlightChunks : \E r \in Ids :
        /\ calls[i].signalAborted
        /\ \E v \in SeqToSet(calls[i].requests) :
              reqs[v].aborted /\ ~reqs[v].fired
        /\ BornAfterAbort(r)
        /\ reqs[r].kind = "resolved"
        /\ reqs[r].value = reqs[r].key
        /\ \E j \in 1..Len(calls) :
              /\ r \in SeqToSet(calls[j].requests)
              /\ calls[j].cycle > calls[i].cycle
              /\ calls[j].done

\* C12: a step of abort() aborts the signal of every resolver call in
\* flight, calls the cancel function of the pending schedule (the scheduler
\* holds no callback afterwards) and empties the queue without making a
\* resolver call; a request that carries the aborted mark keeps it, and no
\* later dispatch or resolver call takes it.  So the requests that were
\* queued when abort() ran never reach the resolver.
C12_AbortCancelsEverything ==
    /\ EveryStep(Abort,
            /\ \A i \in InFlightChunks : calls'[i].signalAborted
            /\ ~timer' /\ ~cleanup' /\ ~isScheduled'
            /\ queue' = <<>>
            /\ \A v \in SeqToSet(queue) : reqs'[v].aborted
            /\ Len(calls') = Len(calls) /\ Len(cycles') = Len(cycles))
    /\ EveryStep(Next,
          \A r \in Ids : reqs[r].aborted =>
            /\ reqs'[r].aborted
            /\ \A i \in 1..Len(calls') :
                  i > Len(calls) => r \notin Grouped(calls'[i])
            /\ \A c \in 1..Len(cycles') :
                  c > Len(cycles) => r \notin SeqToSet(cycles'[c].batch))

\* abort() was called with one resolver call in flight and a newer request
\* queued behind a pending schedule: the call's signal is aborted, the
\* queued request is rejected and was never dispatched, no callback is left
C12_Witness ==
    \E i \in InFlightChunks : \E v \in Ids :
        /\ calls[i].signalAborted
        /\ \A x \in SeqToSet(calls[i].requests) : ~reqs[x].fired /\ x < v
        /\ AbortedInQueue(v)
        /\ reqs[v].error = "AbortError"
        /\ ~timer /\ ~isScheduled /\ queue = <<>>

\* C13: the signal of a resolver call is aborted only when every request of
\* its chunk carries the aborted mark, which abort() gives to all of them
\* and the per-request signals give one by one.  While a request of the
\* chunk is still wanted the signal is not aborted, and a firing signal
\* that leaves such a request aborts nothing.
C13_SignalAbortedOnlyIfNoneWanted ==
    /\ (\A i \in 1..Len(calls) : calls[i].signalAborted =>
          \A r \in SeqToSet(calls[i].requests) : reqs[r].aborted)
    /\ EveryStep(Next,
          \A i \in 1..Len(calls) :
            (~calls[i].signalAborted /\ calls'[i].signalAborted) =>
                \/ Abort
                \/ \A r \in SeqToSet(calls[i].requests) :
                      reqs'[r].aborted /\ reqs'[r].fired)

\* a call for two requests of which one was cancelled by its signal: the
\* call is still in flight with its signal intact for the other
C13_Witness ==
    \E i \in InFlightChunks : \E a, b \in Grouped(calls[i]) :
        /\ reqs[a].fired /\ reqs[a].error = "AbortError"
        /\ Pending(b)
        /\ ~calls[i].signalAborted

\* C14: a resolver call in flight whose chunk requests are all cancelled has
\* its signal aborted, and it is the step in which the last of their
\* signals fires that aborts it.
C14_LastCancelAbortsSignal ==
    /\ (\A i \in InFlightChunks :
          (\A r \in SeqToSet(calls[i].requests) : reqs[r].aborted)
              => calls[i].signalAborted)
    /\ EveryStep(Next,
          \A i \in InFlightChunks :
            (/\ \E r \in SeqToSet(calls[i].requests) : ~reqs[r].fired
             /\ \A r \in SeqToSet(calls[i].requests) : reqs'[r].fired)
                => (~calls[i].signalAborted /\ calls'[i].signalAborted))

\* a call in flight for two requests whose signals both fired
C14_Witness ==
    \E i \in InFlightChunks : \E a, b \in Grouped(calls[i]) :
        /\ a # b
        /\ \A r \in SeqToSet(calls[i].requests) :
              reqs[r].fired /\ reqs[r].error = "AbortError"
        /\ calls[i].signalAborted

\* C15: of two requests for the same normalized key, one cancelled by its
\* own signal and the other never cancelled.  The cancelled one is rejected
\* with an AbortError.  The other is not lost: while pending it is queued
\* behind a pending schedule or held by a cycle; the resolver call made for
\* its chunk has it under its key and keeps an unaborted signal; it never
\* gets an AbortError and resolves with the item matched for the key.
C15_OneOfTwoCancelled ==
    (\A a, b \in Ids :
        (/\ a # b
         /\ KeyFn(reqs[a].key) = KeyFn(reqs[b].key)
         /\ reqs[a].fired
         /\ ~reqs[b].aborted) =>
            /\ reqs[a].kind = "rejected" /\ reqs[a].error = "AbortError"
            /\ Pending(b) =>
                  \/ b \in SeqToSet(queue) /\ timer
                  \/ \E c \in 1..Len(cycles) : b \in CycleRequests(c)
            /\ \A i \in 1..Len(calls) :
                  b \in SeqToSet(calls[i].requests) =>
                      /\ ~calls[i].signalAborted
                      /\ b \in SeqToSet(calls[i].keyToRequests[KeyFn(reqs[b].key)])
            /\ reqs[b].kind = "rejected" => reqs[b].error # "AbortError"
            /\ reqs[b].kind = "resolved" =>
                  KeyFn(reqs[b].value) = KeyFn(reqs[b].key))

\* three requests for one key: the first cancelled while queued, the other
\* two dispatched in one call, of which one was cancelled in flight and the
\* other resolved
C15_Witness ==
    \E i \in 1..Len(calls) : \E a, b, c \in Ids :
        /\ KeyFn(reqs[a].key) = KeyFn(reqs[b].key)
        /\ KeyFn(reqs[c].key) = KeyFn(reqs[b].key)
        /\ reqs[a].fired /\ a \notin SeqToSet(calls[i].requests)
        /\ b \in Grouped(calls[i]) /\ c \in Grouped(calls[i])
        /\ reqs[c].fired /\ reqs[c].error = "AbortError"
        /\ reqs[b].kind = "resolved" /\ reqs[b].value # 0
        /\ Len(calls[i].uniqueKeys) = 1
        /\ ~calls[i].signalAborted

\* C16: a step that cancels the last wanted request of a non-empty queue
\* leaves the queue and pendingKeys empty and the schedule cancelled (no
\* callback held, isScheduled false, cleanup null); it makes no resolver
\* call and starts no cycle, and no later cycle or call takes the requests
\* that were queued.
C16_AllQueuedCancelledClears ==
    /\ EveryStep(Next,
          (/\ \E x \in SeqToSet(queue) : ~reqs[x].aborted
           /\ \A x \in SeqToSet(queue) : reqs'[x].aborted) =>
              /\ queue' = <<>>
              /\ pendingKeys' = {}
              /\ ~timer' /\ ~isScheduled' /\ ~cleanup'
              /\ calls' = calls \/ Abort
              /\ cycles' = cycles)
    /\ (\A r \in Ids :
          (reqs[r].fired /\ \A c \in 1..Len(cycles) : r \notin CycleRequests(c))
              => \A i \in 1..Len(calls) : r \notin SeqToSet(calls[i].requests))
    /\ Len(queue) > 0 => \E x \in SeqToSet(queue) : ~reqs[x].aborted

\* two requests cancelled by their signals while queued: nothing is queued
\* or scheduled, and no dispatch or resolver call was ever made
C16_Witness ==
    \E a, b \in Ids :
        /\ a # b
        /\ reqs[a].fired /\ reqs[b].fired
        /\ Len(reqs) = 2
        /\ cycles = <<>> /\ calls = <<>>
        /\ queue = <<>> /\ pendingKeys = {}
        /\ ~timer /\ ~isScheduled /\ ~cleanup

\* C17: a step in which the signal of an already settled request fires
\* changes nothing but that signal: the request keeps its outcome and its
\* aborted mark, no chunk signal is aborted, and the queue, pendingKeys and
\* the schedule of a later cycle are left as they are.
C17_LateSignalNoEffect ==
    EveryStep(NextLate,
       \A r \in Ids :
          (~Pending(r) /\ ~reqs[r].fired /\ reqs'[r].fired) =>
              /\ reqs' = [reqs EXCEPT ![r].fired = TRUE]
              /\ UNCHANGED <<queue, pendingKeys, activeRequests, isScheduled,
                             cleanup, timer, cycles, calls>>)

\* the signal of a resolved request has fired while a later request is
\* queued behind a pending schedule and another call is in flight
C17_Witness ==
    \E r \in Ids : \E i \in InFlightChunks :
        /\ reqs[r].kind = "resolved" /\ reqs[r].fired /\ ~reqs[r].aborted
        /\ ~calls[i].signalAborted
        /\ \E x \in SeqToSet(calls[i].requests) : Pending(x)
        /\ Len(queue) > 0 /\ timer /\ isScheduled

\* C18: a get() whose signal is already aborted returns a promise that is
\* rejected with an AbortError in that step, and the step changes nothing
\* else: no request is queued, pendingKeys and the schedule are as before,
\* no earlier request, cycle or resolver call is touched.
C18_AbortedGetLeavesEngine ==
    EveryStep(NextIntake,
       (Len(reqs') > Len(reqs) /\ reqs'[Len(reqs')].fired) =>
          /\ reqs'[Len(reqs')].kind = "rejected"
          /\ reqs'[Len(reqs')].error = "AbortError"
          /\ SubSeq(reqs', 1, Len(reqs)) = reqs
          /\ UNCHANGED <<queue, pendingKeys, activeRequests, isScheduled,
                         cleanup, timer, cycles, calls>>)

\* a get() with an aborted signal made for a key that is queued behind a
\* pending schedule, and another made on the idle engine: the first left
\* the queue and the pending key as they were, the second scheduled nothing
C18_Witness ==
    \E a, b, c \in Ids :
        /\ a < b /\ b < c
        /\ reqs[a].fired /\ ~reqs[a].aborted /\ reqs[a].error = "AbortError"
        /\ reqs[c].fired /\ ~reqs[c].aborted /\ reqs[c].error = "AbortError"
        /\ KeyFn(reqs[c].key) = KeyFn(reqs[b].key)
        /\ queue = <<b>> /\ pendingKeys = {KeyFn(reqs[b].key)}
        /\ timer /\ isScheduled /\ Pending(b)

\* C19: a step of get([]) returns a promise fulfilled with the empty array
\* and changes nothing else: nothing is queued, pendingKeys is as before,
\* the scheduler is not invoked (no callback appears, isScheduled is as
\* before), and no cycle or resolver call starts.
C19_EmptyGetLeavesEngine ==
    EveryStep(NextIntake,
       (Len(reqs') > Len(reqs) /\ reqs'[Len(reqs')].key = 0) =>
          /\ reqs'[Len(reqs')].kind = "resolved"
          /\ reqs'[Len(reqs')].value = <<>>
          /\ SubSeq(reqs', 1, Len(reqs)) = reqs
          /\ UNCHANGED <<queue, pendingKeys, activeRequests, isScheduled,
                         cleanup, timer, cycles, calls>>)

\* get([]) was called on the idle engine, which is still idle, and again
\* with a request queued behind its schedule, which is as it was
C19_Witness ==
    /\ Len(reqs) = 3
    /\ reqs[1].key = 0 /\ reqs[1].kind = "resolved"
    /\ reqs[3].key = 0 /\ reqs[3].kind = "resolved"
    /\ queue = <<2>> /\ pendingKeys = {KeyFn(reqs[2].key)}
    /\ timer /\ isScheduled /\ Pending(2)
    /\ cycles = <<>> /\ calls = <<>>

\* C20: a step of flush() calls the cancel function of the pending schedule
\* (the scheduler holds no callback afterwards, isScheduled is false) and
\* dispatches at once: the queue and pendingKeys are empty after it, and
\* when the queue held a wanted request the step starts a cycle whose batch
\* is all the wanted requests of the queue, in order, and invokes the
\* resolver for its first chunk.  The scheduler's callback is not needed:
\* every cycle here is started by flush().
C20_FlushDispatchesNow ==
    EveryStep(Flush,
         LET live == SelectSeq(queue, LAMBDA r : ~reqs[r].aborted)
             c == Len(cycles')
             i == Len(calls')
         IN  /\ ~timer' /\ ~isScheduled' /\ ~cleanup'
             /\ queue' = <<>> /\ pendingKeys' = {}
             /\ IF Len(live) = 0
                THEN cycles' = cycles /\ calls' = calls
                ELSE /\ c = Len(cycles) + 1
                     /\ cycles'[c].batch = live
                     /\ i = Len(calls) + 1
                     /\ calls'[i].cycle = c /\ calls'[i].chunk = 1
                     /\ calls'[i].requests = cycles'[c].chunks[1]
                     /\ Grouped(calls'[i]) = SeqToSet(cycles'[c].chunks[1])
                     /\ ~calls'[i].done /\ ~calls'[i].signalAborted)

\* the scheduler never called back: flush() found a schedule pending for
\* two queued requests, cancelled it and made the resolver call that
\* resolved them
C20_Witness ==
    \E i \in 1..Len(calls) : \E a, b \in Grouped(calls[i]) :
        /\ a # b
        /\ calls[i].done
        /\ reqs[a].kind = "resolved" /\ reqs[b].kind = "resolved"
        /\ ~timer /\ ~isScheduled /\ queue = <<>>

\* C21: a step of flush() that finds no wanted request in the queue (the
\* queue is empty, as it is after a flush() with no get() since) makes no
\* resolver call, starts no cycle and settles nothing; every flush() leaves
\* the queue empty; and no request is ever given to two resolver calls or
\* placed in two chunks, whatever number of flushes run while calls are in
\* flight.
C21_FlushIdempotent ==
    /\ EveryStep(Flush,
            /\ queue' = <<>>
            /\ (\A r \in SeqToSet(queue) : reqs[r].aborted) =>
                  calls' = calls /\ cycles' = cycles /\ reqs' = reqs)
    /\ (\A i, j \in 1..Len(calls) : i # j =>
          SeqToSet(calls[i].requests) \cap SeqToSet(calls[j].requests) = {})
    /\ (\A c \in 1..Len(cycles) :
          /\ \A n1, n2 \in 1..Len(cycles[c].chunks) : n1 # n2 =>
                SeqToSet(cycles[c].chunks[n1])
                    \cap SeqToSet(cycles[c].chunks[n2]) = {}
          /\ \A i, j \in 1..Len(calls) :
                (i # j /\ calls[i].cycle = c /\ calls[j].cycle = c)
                    => calls[i].chunk # calls[j].chunk)

\* the only resolver call made is in flight for two requests while nothing
\* is queued or scheduled: flush() can be called again and again here
C21_Witness ==
    /\ Len(calls) = 1 /\ Len(cycles) = 1
    /\ 1 \in InFlightChunks
    /\ Len(calls[1].requests) = 2
    /\ \A r \in SeqToSet(calls[1].requests) : Pending(r)
    /\ queue = <<>> /\ ~timer /\ ~isScheduled
    /\ Len(reqs) = 2

\* C22: the scheduler never holds more than one callback of the engine.  A
\* step that calls the scheduler (a callback appears) starts from a state
\* with no callback held and isScheduled false; while a callback is held
\* isScheduled is true; and a get() made while isScheduled is true leaves
\* the callback, the cancel function and the flag as they are.
C22_OneActiveSchedule ==
    /\ Cardinality(callbacks) <= 1
    /\ timer => isScheduled /\ cleanup
    /\ EveryStep(Next,
          /\ ~(callbacks' \subseteq callbacks) =>
                /\ callbacks = {} /\ ~isScheduled
                /\ Len(reqs') > Len(reqs)
          /\ (isScheduled /\ Len(reqs') > Len(reqs)) =>
                /\ callbacks' = callbacks
                /\ cleanup' = cleanup
                /\ isScheduled')

\* three gets made while the schedule of the first was pending: the
\* scheduler holds the one callback made for the first
C22_Witness ==
    /\ Len(queue) = 3
    /\ callbacks = {queue[1]}
    /\ isScheduled /\ cleanup
    /\ \A r \in SeqToSet(queue) : Pending(r)

\* a request of a returned call that the distribution reached: it was not
\* cancelled, and the call's signal was not aborted when the resolver
\* returned
Distributed(i, r) ==
    /\ calls[i].done
    /\ ~calls[i].abortedAtReturn
    /\ r \in Grouped(calls[i])
    /\ ~reqs[r].aborted

\* the key under which the resolver was asked for request r in call i
AskedKey(i, r) ==
    CHOOSE k \in SeqToSet(calls[i].uniqueKeys) :
        r \in SeqToSet(calls[i].keyToRequests[KeyFn(k)])

\* C23: under indexed matching, when the resolver returned a record, a
\* request whose key has an entry in the record resolves with that entry
\* and a request whose key has no entry rejects with the BatchError for a
\* missing result.
C23_MissingKeyRejectsAlone ==
    \A i \in 1..Len(calls) : \A r \in Ids :
        (Distributed(i, r) /\ calls[i].result.kind = "record") =>
            IF AskedKey(i, r) \in calls[i].result.items
            THEN reqs[r].kind = "resolved" /\ reqs[r].value = AskedKey(i, r)
            ELSE reqs[r].kind = "rejected" /\ reqs[r].error = "NoResult"

\* the errors that are instances of BatchError
BatchErrors == {"NoResult", "BadShape"}

\* C24: under indexed matching, when the resolver returned something that
\* is not a record (an array, null), every request the distribution reached
\* is rejected with a BatchError and none is resolved.
C24_WrongShapeFailsChunk ==
    \A i \in 1..Len(calls) : \A r \in Ids :
        (Distributed(i, r) /\ calls[i].result.kind \in {"array", "null"}) =>
            reqs[r].kind = "rejected" /\ reqs[r].error \in BatchErrors

\* a resolver call that failed with a recorded thrown value
Failed(i) == "thrown" \in DOMAIN calls[i]

\* C25: when a resolver call fails, every request of its chunk that was not
\* cancelled rejects with the very value the resolver produced.
C25_ResolverErrorVerbatim ==
    \A i \in 1..Len(calls) : Failed(i) =>
        \A r \in Grouped(calls[i]) : ~reqs[r].aborted =>
            reqs[r].kind = "rejected" /\ reqs[r].error = calls[i].thrown

\* C25, amended: when a resolver call fails, every request of its chunk that
\* was not cancelled rejects with one and the same error: the value the
\* resolver produced when that is an Error instance, and otherwise a new
\* Error made from the string of that value.  The cancelled requests keep
\* their AbortError.
C25_ResolverErrorNormalized ==
    \A i \in 1..Len(calls) : Failed(i) =>
        \A r \in Grouped(calls[i]) :
            /\ reqs[r].kind = "rejected"
            /\ IF reqs[r].aborted THEN reqs[r].error = "AbortError"
               ELSE IF calls[i].thrown = "ResolverError"
               THEN reqs[r].error = "ResolverError"
               ELSE reqs[r].error = "WrappedError"

\* a call for two keys whose resolver threw a string: both requests hold
\* the Error made from it, a third request cancelled in flight its
\* AbortError
C25_Witness ==
    \E i \in 1..Len(calls) : \E a, b, c \in Grouped(calls[i]) :
        /\ Failed(i) /\ calls[i].thrown = "text"
        /\ a # b
        /\ reqs[a].error = "WrappedError" /\ reqs[b].error = "WrappedError"
        /\ reqs[c].fired /\ reqs[c].error = "AbortError"

\* C26: the step in which a resolver call returns, with a failure or not,
\* changes only the requests that call carries: every other request, the
\* cycles with their chunks still to be sent, the other calls, the queue and
\* the schedule are as before.  The step in which a signal fires changes no
\* other request.  The step that moves a cycle to its next chunk makes the
\* resolver call for it whenever the chunk holds a wanted request, whatever
\* became of the chunk before.
C26_FailuresAreChunkScoped ==
    EveryStep(Next,
       /\ \A i \in InFlightChunks : calls'[i].done =>
            /\ \A r \in Ids \ Grouped(calls[i]) : reqs'[r] = reqs[r]
            /\ \A j \in 1..Len(calls) \ {i} : calls'[j] = calls[j]
            /\ Len(calls') = Len(calls)
            /\ UNCHANGED <<cycles, queue, pendingKeys, isScheduled, cleanup,
                           callbacks>>
       /\ \A r \in Ids : (~reqs[r].fired /\ reqs'[r].fired) =>
            \A x \in Ids \ {r} : reqs'[x] = reqs[x]
       /\ \A c \in 1..Len(cycles) : cycles'[c].next > cycles[c].next =>
            LET n == cycles[c].next
                chunk == cycles[c].chunks[n]
            IN  /\ cycles'[c].next = n + 1
                /\ (\E r \in SeqToSet(chunk) : ~reqs[r].aborted) =>
                      /\ Len(calls') = Len(calls) + 1
                      /\ calls'[Len(calls')].cycle = c
                      /\ calls'[Len(calls')].chunk = n
                      /\ calls'[Len(calls')].requests = chunk
                      /\ ~calls'[Len(calls')].signalAborted)

\* a cycle of two chunks: the call of the first failed and rejected its two
\* requests, the call of the second was made after it and resolved its one
C26_Witness ==
    \E i, j \in 1..Len(calls) :
        /\ calls[i].cycle = calls[j].cycle
        /\ calls[i].chunk = 1 /\ calls[j].chunk = 2
        /\ calls[i].done /\ calls[j].done
        /\ Len(calls[i].requests) = 2
        /\ \A r \in SeqToSet(calls[i].requests) : reqs[r].error = "ResolverError"
        /\ \A r \in SeqToSet(calls[j].requests) :
              reqs[r].kind = "resolved" /\ reqs[r].value = reqs[r].key

\* C27: an exception of the trace handler reaches no caller and leaves the
\* engine consistent: no get() throws and no promise holds the handler's
\* error, and a request never waits in the queue with isScheduled set while
\* the scheduler holds no callback.
C27_SinkErrorsIsolated ==
    /\ \A r \in Ids : reqs[r].kind # "threw" /\ reqs[r].error # "SinkError"
    /\ (Len(queue) > 0 /\ isScheduled) => timer

\* C28: the promise of a get(keys) call is settled only when every one of
\* its single-key requests is settled, and when it is fulfilled its values
\* are those of the requests in the order of the keys given.
C28_ArrayGetWaitsForAll ==
    \A g \in Groups :
        /\ PromiseAll(g).kind # "pending" =>
              \A i \in 1..Len(Members(g)) : ~Pending(Members(g)[i])
        /\ PromiseAll(g).kind = "resolved" =>
              \A i \in 1..Len(Members(g)) :
                  KeyFn(PromiseAll(g).value[i]) = KeyFn(reqs[Members(g)[i]].key)

\* C28 (amended): the promise of a get(keys) call is fulfilled only when
\* every one of its single-key requests is fulfilled, with their values in
\* the order of the keys given; it is rejected as soon as one of them is
\* rejected, and is never left pending once all of them are settled.
C28_ArrayGetAllOrFirstFailure ==
    \A g \in Groups :
        LET ms == Members(g)
            all == PromiseAll(g)
        IN  /\ all.kind = "resolved" =>
                  /\ Len(all.value) = Len(ms)
                  /\ \A i \in 1..Len(ms) :
                        /\ reqs[ms[i]].kind = "resolved"
                        /\ KeyFn(all.value[i]) = KeyFn(reqs[ms[i]].key)
            /\ all.kind = "rejected" <=>
                  \E i \in 1..Len(ms) : reqs[ms[i]].kind = "rejected"
            /\ (\A i \in 1..Len(ms) : ~Pending(ms[i])) => all.kind # "pending"

\* a get([2, 1]) fulfilled with the values of 2 and 1 in that order, its two
\* requests having been sent in different resolver calls
C28_Witness ==
    \E g \in Groups :
        /\ PromiseAll(g).kind = "resolved"
        /\ PromiseAll(g).value = <<2, 1>>
        /\ \E i, j \in 1..Len(calls) :
              /\ i # j
              /\ g \in SeqToSet(calls[i].requests)
              /\ g + 1 \in SeqToSet(calls[j].requests)

\* C29: a request cancelled before its chunk is processed never reaches the
\* resolver.  Whenever a resolver call is made, no request that was cancelled
\* by then is among the requests the call answers, a request cancelled while
\* in the queue is not in the chunk at all, every key of the call is the key
\* of a not-cancelled request of the chunk with that normalized key, every
\* not-cancelled request of the chunk is answered by the call, and the call
\* has at least one key: a chunk of cancelled requests makes no call.
C29_CancelledNeverReachResolver ==
    EveryStep(NextBurst,
       Len(calls') > Len(calls) =>
         LET new == calls'[Len(calls')]
             chunk == SeqToSet(new.requests)
         IN  /\ Len(calls') = Len(calls) + 1
             /\ Len(new.uniqueKeys) > 0
             /\ Grouped(new) = {r \in chunk : ~reqs[r].aborted}
             /\ \A r \in SeqToSet(queue) : reqs[r].aborted => r \notin chunk
             /\ \A i \in 1..Len(new.uniqueKeys) :
                    \E r \in chunk :
                        /\ ~reqs[r].aborted
                        /\ KeyFn(reqs[r].key) = KeyFn(new.uniqueKeys[i])
             /\ \A r \in chunk :
                    ~reqs[r].aborted =>
                        \E i \in 1..Len(new.uniqueKeys) :
                            KeyFn(reqs[r].key) = KeyFn(new.uniqueKeys[i]))

\* a resolver call for a chunk of two requests, one cancelled while it
\* waited behind an earlier chunk: the call has the key of the other only
C29_Witness ==
    \E i \in 1..Len(calls) : \E r, w \in SeqToSet(calls[i].requests) :
        /\ calls[i].chunk > 1
        /\ reqs[r].aborted /\ r \notin Grouped(calls[i])
        /\ w \in Grouped(calls[i])
        /\ KeyFn(reqs[r].key) # KeyFn(reqs[w].key)
        /\ calls[i].uniqueKeys = <<reqs[w].key>>

\* the request whose get() created the pending schedule, and a request
\* queued after it, both still wanted
JoinedPending(creator, r) ==
    /\ creator \in callbacks
    /\ creator \in SeqToSet(queue) /\ r \in SeqToSet(queue)
    /\ r > creator
    /\ ~reqs[creator].aborted /\ ~reqs[r].aborted

\* C30: a get() that arrives while a dispatch is scheduled is queued and
\* leaves the pending schedule alone, and when the dispatch runs it is sent
\* in the same resolver call as the request that created the schedule.
C30_JoinsCreatorsCall ==
    EveryStep(Next,
       /\ (isScheduled /\ Len(reqs') > Len(reqs)) =>
              /\ UNCHANGED <<isScheduled, cleanup, callbacks>>
              /\ queue' = Append(queue, Len(reqs'))
       /\ Len(cycles') > Len(cycles) =>
              \A creator, r \in Ids :
                  JoinedPending(creator, r) =>
                      \E i \in 1..Len(calls') :
                          {creator, r} \subseteq Grouped(calls'[i]))

\* C30 (amended): a get() that arrives while a dispatch is scheduled is
\* queued and leaves the pending schedule alone: no scheduler call, no
\* cancellation.  When the dispatch runs, by the callback or by flush(), the
\* request is in the same cycle as the request that created the schedule,
\* and in the same resolver call when the batch limit puts both in the same
\* chunk, as it always does without a limit.
C30_JoinsPendingCycle ==
    EveryStep(Next,
       /\ (isScheduled /\ Len(reqs') > Len(reqs)) =>
              /\ UNCHANGED <<isScheduled, cleanup, callbacks>>
              /\ queue' = Append(queue, Len(reqs'))
       /\ Len(cycles') > Len(cycles) =>
              \A creator, r \in Ids :
                  JoinedPending(creator, r) =>
                      LET new == cycles'[Len(cycles')]
                      IN  /\ Len(cycles') = Len(cycles) + 1
                          /\ {creator, r} \subseteq SeqToSet(new.batch)
                          /\ (max = 0 \/ {creator, r} \subseteq SeqToSet(new.chunks[1]))
                               => /\ Len(calls') = Len(calls) + 1
                                  /\ {creator, r} \subseteq
                                         Grouped(calls'[Len(calls')])
                                  /\ calls'[Len(calls')].cycle = Len(cycles'))

\* a resolver call made by the scheduler's callback for two requests of
\* different keys, the second queued while the schedule of the first was
\* pending: one call with both keys
C30_Witness ==
    \E i \in 1..Len(calls) : \E creator, r \in Grouped(calls[i]) :
        /\ creator < r
        /\ Len(calls[i].uniqueKeys) = 2
        /\ callbacks = {}
        /\ ~isScheduled
        /\ Len(cycles) = 1 /\ Len(calls) = 1
        /\ Len(reqs) = 2

\* the position in the recorded events of the 'get' event of request r: every
\* get() of these callers makes a request, so it is the r-th 'get' event
GetPosition(r) ==
    CHOOSE j \in 1..Len(tracer.events) :
        /\ tracer.events[j].type = "get"
        /\ Cardinality({i \in 1..j : tracer.events[i].type = "get"}) = r

\* the get() of request r emitted a 'dedup' event
Deduped(r) ==
    LET j == GetPosition(r)
    IN  /\ j < Len(tracer.events)
        /\ tracer.events[j + 1].type = "dedup"
        /\ tracer.events[j + 1].data = reqs[r].key

SameKey(r1, r2) == KeyFn(reqs[r1].key) = KeyFn(reqs[r2].key)

\* C31: pendingKeys is the set of normalized keys of the requests in the
\* queue, and the get() of a queued request emitted 'dedup' exactly when an
\* earlier request of the same normalized key was in the queue: of the N
\* queued requests of one key all but the first emitted it, whatever keys
\* the chunks in flight have.  Every 'get' event belongs to a request, has
\* its key, and is followed by at most one 'dedup', of the same key.
C31_DedupIffKeyQueued ==
    /\ pendingKeys = {KeyFn(reqs[r].key) : r \in SeqToSet(queue)}
    /\ Cardinality({j \in 1..Len(tracer.events) :
                       tracer.events[j].type = "get"}) = Len(reqs)
    /\ \A j \in 1..Len(tracer.events) :
          tracer.events[j].type = "dedup" =>
              /\ j > 1
              /\ tracer.events[j - 1].type = "get"
              /\ tracer.events[j - 1].data = tracer.events[j].data
    /\ \A r \in Ids : tracer.events[GetPosition(r)].data = reqs[r].key
    /\ \A r \in SeqToSet(queue) :
          Deduped(r) <=> \E e \in SeqToSet(queue) : e < r /\ SameKey(e, r)
    /\ \A ck \in pendingKeys :
          LET N == Cardinality({r \in SeqToSet(queue) : KeyFn(reqs[r].key) = ck})
          IN  Cardinality({r \in SeqToSet(queue) :
                              KeyFn(reqs[r].key) = ck /\ Deduped(r)}) = N - 1

\* a resolver call for key 1 is in flight, and of two requests queued after
\* it for the same normalized key the first emitted no 'dedup' and the
\* second did
C31_Witness ==
    \E i \in InFlightChunks : \E r1, r2 \in SeqToSet(queue) :
        /\ r1 < r2
        /\ KeyFn(calls[i].uniqueKeys[1]) = KeyFn(reqs[r1].key)
        /\ SameKey(r1, r2)
        /\ reqs[r1].key # reqs[r2].key
        /\ ~Deduped(r1)
        /\ Deduped(r2)

\* the recorded events, and the positions of those of one type
Events == tracer.events

PositionsOf(type) == {j \in 1..Len(Events) : Events[j].type = type}

\* the resolver call that request r was sent in (0: none)
CallOf(r) ==
    IF \E i \in 1..Len(calls) : r \in Grouped(calls[i])
    THEN CHOOSE i \in 1..Len(calls) : r \in Grouped(calls[i])
    ELSE 0

\* the events of a chunk, by its batchId: its 'dispatch' event comes before
\* every 'resolve', 'error' and 'abort' event of that batchId
DispatchComesFirst ==
    \A v \in PositionsOf("resolve") \cup PositionsOf("error")
               \cup PositionsOf("abort") :
        \E d \in PositionsOf("dispatch") :
            d < v /\ Events[d].batchId = Events[v].batchId

\* C32: for every request that is resolved with a value, the events 'get'
\* of its get(), 'schedule', 'dispatch' of its chunk and 'resolve' of its
\* chunk were emitted in this order, and for every chunk 'dispatch' comes
\* before 'resolve', 'error' and 'abort'.
C32_GetScheduleDispatchResolve ==
    /\ \A r \in Ids :
          reqs[r].kind = "resolved" =>
              \E s \in PositionsOf("schedule"), d \in PositionsOf("dispatch"),
                 v \in PositionsOf("resolve") :
                  /\ GetPosition(r) < s /\ s < d /\ d < v
                  /\ Events[d].batchId = calls[CallOf(r)].batchId
                  /\ Events[v].batchId = calls[CallOf(r)].batchId
    /\ DispatchComesFirst

\* C32 (amended): for every request that is resolved with a value, the
\* events 'get' of its get(), 'dispatch' of its chunk, with its key among
\* the keys, and 'resolve' of its chunk were emitted in this order, and a
\* 'schedule' event was emitted before the 'dispatch': after the 'get' when
\* this get() made the schedule, before the 'get' when it joined a schedule
\* that was pending.  For every chunk 'dispatch' comes before 'resolve',
\* 'error' and 'abort'.
C32_TraceOrder ==
    /\ \A r \in Ids :
          reqs[r].kind = "resolved" =>
              \E s \in PositionsOf("schedule"), d \in PositionsOf("dispatch"),
                 v \in PositionsOf("resolve") :
                  /\ GetPosition(r) < d /\ s < d /\ d < v
                  /\ Events[d].batchId = calls[CallOf(r)].batchId
                  /\ Events[v].batchId = calls[CallOf(r)].batchId
                  /\ \E n \in 1..Len(Events[d].data) :
                        KeyFn(Events[d].data[n]) = KeyFn(reqs[r].key)
                  /\ IF reqs[r].batchId # 0
                     THEN /\ s = GetPosition(r) + 1 \/ s = GetPosition(r) + 2
                          /\ Events[s].batchId = reqs[r].batchId
                     ELSE s < GetPosition(r)
    /\ DispatchComesFirst

\* a request whose get() joined a pending schedule is resolved by the second
\* chunk of its cycle
C32_Witness ==
    \E r \in Ids :
        /\ reqs[r].kind = "resolved"
        /\ reqs[r].batchId = 0
        /\ calls[CallOf(r)].chunk = 2
        /\ \E j \in PositionsOf("schedule") : j < GetPosition(r)

\* C33: the batchIds of the 'dispatch' events are unique and increase in the
\* order in which the events are emitted.
C33_ChunkIdsIncrease ==
    \A i, j \in PositionsOf("dispatch") :
        i < j => Events[i].batchId < Events[j].batchId

\* C34: between operations the queue is non-empty exactly when a dispatch is
\* scheduled, and then the scheduler holds exactly one callback and the
\* cancel function is kept; with an empty queue it holds none.
C34_QueuedIffScheduled ==
    /\ Len(queue) > 0 <=> isScheduled
    /\ isScheduled => cleanup /\ Cardinality(callbacks) = 1
    /\ ~isScheduled => callbacks = {}

\* after a dispatch and a cancellation: a cycle is running, and of two
\* requests queued since, one is cancelled and the other waits with the
\* schedule pending
C34_Witness ==
    \E r1, r2 \in SeqToSet(queue) :
        /\ reqs[r1].aborted
        /\ Pending(r2)
        /\ isScheduled
        /\ Len(cycles) > 0

\* C35: a non-empty queue holds at least one request that is not cancelled,
\* and a dispatch that finds a non-empty queue (a step that empties the
\* queue and cancels nothing) starts a cycle with the not-cancelled requests
\* of the queue and makes a resolver call for its first chunk.
C35_QueueHasLiveRequest ==
    /\ Len(queue) > 0 => ~AllRequestsAborted(reqs, queue)
    /\ EveryStep(Next,
          (/\ Len(queue) > 0
           /\ queue' = <<>>
           /\ \A r \in Ids : reqs'[r].aborted = reqs[r].aborted)
          => /\ Len(cycles') = Len(cycles) + 1
             /\ Len(calls') = Len(calls) + 1
             /\ cycles'[Len(cycles')].batch =
                    SelectSeq(queue, LAMBDA r : ~reqs[r].aborted)
             /\ calls'[Len(calls')].cycle = Len(cycles')
             /\ Len(calls'[Len(calls')].uniqueKeys) > 0)

\* a dispatch found a cancelled request in the queue between two requests
\* that were not cancelled, and sent those two
C35_Witness ==
    \E c \in 1..Len(cycles) : \E r \in Ids :
        /\ reqs[r].aborted /\ reqs[r].fired
        /\ r \notin SeqToSet(cycles[c].batch)
        /\ \E m0, m1 \in SeqToSet(cycles[c].batch) : m0 < r /\ r < m1
        /\ \E i \in 1..Len(calls) : calls[i].cycle = c

\* C36: every cycle here is started by flush().  When the promise of a
\* flush() is resolved, every request that was in the queue when it was
\* called is settled: those of every chunk of its cycle, and those that
\* were in the queue cancelled, which no cycle takes.
C36_FlushResolvesAfterAllSettle ==
    /\ \A c \in 1..Len(cycles) :
          DispatchReturned(c) => \A r \in CycleRequests(c) : ~Pending(r)
    /\ \A r \in SeqToSet(queue) : reqs[r].aborted => ~Pending(r)

\* the promise of a flush() is resolved after two resolver calls, and the
\* request of its second chunk is resolved with its item
C36_Witness ==
    \E c \in 1..Len(cycles) :
        /\ DispatchReturned(c)
        /\ Len(cycles[c].chunks) = 2
        /\ Len(CycleCalls(c)) = 2
        /\ \E r \in SeqToSet(cycles[c].chunks[2]) : reqs[r].kind = "resolved"

\* every request of the chunks of cycle c that the loop of dispatch has not
\* started is cancelled
LaterChunksCancelled(c) ==
    \A n \in cycles[c].next..Len(cycles[c].chunks) :
        AllRequestsAborted(reqs, cycles[c].chunks[n])

\* C37: a step of abort() cancels the requests of every chunk that has not
\* been started, of every cycle, and rejects them as aborted; a cancelled
\* request stays cancelled; and no resolver call is made for a chunk whose
\* requests are all cancelled.  So after abort() the chunks behind the one
\* in flight never reach the resolver.
C37_AbortStopsLaterChunks ==
    /\ EveryStep(Abort,
          \A c \in 1..Len(cycles) :
              /\ LaterChunksCancelled(c)'
              /\ \A n \in cycles[c].next..Len(cycles[c].chunks) :
                    \A r \in SeqToSet(cycles[c].chunks[n]) :
                        reqs'[r].kind = "rejected")
    /\ EveryStep(NextBurst,
       /\ \A r \in Ids : reqs[r].aborted => reqs'[r].aborted
       /\ \A c \in 1..Len(cycles) :
              LaterChunksCancelled(c) =>
                  /\ LaterChunksCancelled(c)'
                  /\ \A i \in 1..Len(calls') :
                        i > Len(calls) => calls'[i].cycle # c)

\* abort() was called while the first chunk of a cycle was in flight: the
\* loop has passed the second chunk, whose two requests, not cancelled by
\* their signals, are rejected as aborted, and no resolver call was made
\* for it
C37_Witness ==
    \E c \in 1..Len(cycles) :
        /\ Len(cycles[c].chunks) = 2
        /\ cycles[c].next = 3
        /\ Len(CycleCalls(c)) = 1
        /\ calls[CycleCalls(c)[1]].signalAborted
        /\ Len(cycles[c].chunks[2]) = 2
        /\ \A r \in SeqToSet(cycles[c].chunks[2]) :
              /\ reqs[r].aborted /\ ~reqs[r].fired
              /\ reqs[r].error = "AbortError"

\* the terminal events recorded for the chunk with this batchId
TerminalsOf(batchId) ==
    {v \in 1..Len(Events) : /\ Events[v].type \in TerminalEventTypes
                            /\ Events[v].batchId = batchId}

\* C38: a chunk with a 'dispatch' event has at most one terminal event
\* ('resolve', 'error' or 'abort') of its batchId while its resolver call is
\* pending none, and once processChunk has ended exactly one.
C38_OneTerminalEvent ==
    \A i \in 1..Len(calls) :
        /\ \E d \in PositionsOf("dispatch") : Events[d].batchId = calls[i].batchId
        /\ Cardinality(TerminalsOf(calls[i].batchId)) =
               IF calls[i].done THEN 1 ELSE 0

\* C39: the bookkeeping sets hold nothing that is over.  A request in
\* activeRequests is pending and belongs to a cycle; no request of a call
\* in flight is resolved with a value;
\* when no request is pending and no call is in flight both sets are empty.
\* The step in which a resolver call settles takes the call out of
\* inFlightChunks, and a step in which a request settles takes it out of
\* activeRequests.
C39_BookkeepingReleased ==
    /\ (/\ \A r \in activeRequests :
              Pending(r) /\ \E c \in 1..Len(cycles) : r \in CycleRequests(c)
        /\ \A i \in InFlightChunks : \A r \in SeqToSet(calls[i].requests) :
              reqs[r].kind # "resolved"
        /\ ((\A r \in Ids : ~Pending(r)) /\ (\A i \in 1..Len(calls) : calls[i].done))
              => activeRequests = {} /\ InFlightChunks = {})
    /\ \A i \in InFlightChunks : \A resp \in Responses(calls[i]) :
          EveryStep(ResolverSettles(i, resp), i \notin InFlightChunks')
    /\ EveryStep(Next,
          \A r \in Ids :
              (Pending(r) /\ reqs'[r].kind # "pending")
                  => r \notin activeRequests')

\* two resolver calls have returned, a request of each is resolved, nothing
\* is pending, and both sets are empty
C39_Witness ==
    /\ Len(calls) = 2
    /\ \A i \in 1..Len(calls) :
          calls[i].done /\ \E r \in Grouped(calls[i]) : reqs[r].kind = "resolved"
    /\ Len(reqs) = MaxReq
    /\ \A r \in Ids : ~Pending(r)
    /\ activeRequests = {}
    /\ InFlightChunks = {}
====
